---- MODULE Spec2Model ----
(***************************************************************************)
(* A state-machine model of the proxima 2D physics engine: the spatial     *)
(* hash (broad-phase.c), the rigid bodies (rigid-body.c), the narrow phase  *)
(* for circles (collision.c) and the world orchestrator (world.c).          *)
(*                                                                          *)
(* Numbers.  The engine computes in 32-bit floats.  The model places every  *)
(* body on the x axis with integer coordinates, a circle of integer radius  *)
(* and no angular velocity, so that every vector has a zero y component and *)
(* is represented by its x component; quotients are kept at integer         *)
(* resolution.  The spatial hash keeps both cell coordinates.               *)
(***************************************************************************)
EXTENDS Integers, Sequences, FiniteSets, TLC

VARIABLES
    bodies,       \* w->bodies: the array of body handles, in slot order
    body,         \* the prBody structures, by handle
    hash,         \* w->hash->entries: cell key -> list of inserted values
    cache,        \* w->cache: the contact cache, in stb_ds storage order
    handler,      \* w->handler: which of preStep / postStep is set
    accumulator,  \* w->accumulator
    timestamp,    \* w->timestamp
    pc,           \* position inside prStepWorld ("idle" outside of it)
    qi,           \* loop index of the query loop of prPreStepWorld
    stepDt,       \* the dt argument of the running prStepWorld
    caller,       \* who called the running prStepWorld: "step" or "update"
    clock,        \* the monotonic clock read by prGetCurrentTime
    events,       \* history: what the running / last prStepWorld did, in order
    hits,         \* history: pairs the narrow phase found colliding this step
    narrow,       \* history: index pairs the narrow phase ran for this step
    ret,          \* history: the value returned by the last call
    lastCall,     \* history: the last API call and its arguments
    clockReads,   \* history: how often prGetCurrentTime was called
    freed,        \* history: the bodies passed to prReleaseBody
    ops,          \* number of API calls made so far
    steps,        \* number of simulation steps started so far
    upd,          \* history: the running / last prUpdateWorld call
    hq,           \* history of the spatial hash: insertions and the last query
    tr,           \* one refresh of a cache entry: its inputs and its result
    mt,           \* two shapes' materials and the cache entry of their pair
    rb,           \* one rigid body with its shape, and the last call on it
    pg,           \* one prCreatePolygon call: its input and the shape made
    np,           \* one prComputeCollision call: its input and its result
    rs,           \* one cache entry and its two bodies through a step
    rc,           \* one prComputeRaycast call: its input and its result
    shapesFreed   \* history: the shapes passed to prReleaseShape

worldVars == <<bodies, body, hash, cache, handler, accumulator, timestamp>>
ctlVars   == <<pc, qi, stepDt, caller>>
histVars  == <<events, hits, narrow, ret, lastCall, clockReads, freed, ops,
               steps, upd>>
vars      == <<bodies, body, hash, cache, handler, accumulator, timestamp,
               pc, qi, stepDt, caller, clock,
               events, hits, narrow, ret, lastCall, clockReads, freed, ops,
               steps, upd,
               hq, tr, mt, rb, pg, np, rs, rc, shapesFreed>>
unitVars  == <<mt, rb, pg, np, rs, rc, shapesFreed>>

(***************************************************************************)
(* Bounds of the model and constants of the program.                       *)
(***************************************************************************)
MaxOps      == 6      \* API calls per behaviour of the world
MaxSteps    == 2      \* prStepWorld runs per behaviour
MaxClock    == 2      \* readings the clock can reach
MaxInserts  == 3      \* insertions into the spatial hash per behaviour
MaxListOps  == 3      \* body-list calls per behaviour of the list specifications
ListSlack   == 2      \* free slots of the nearly full world

PR_WORLD_MAX_OBJECT_COUNT == 4096
PR_WORLD_ITERATION_COUNT  == 12

NULL == 0

Range(s) == {s[i] : i \in 1..Len(s)}

Min(a, b) == IF a < b THEN a ELSE b
Max(a, b) == IF a > b THEN a ELSE b

(***************************************************************************)
(* Spatial hash (broad-phase.c).                                            *)
(***************************************************************************)

\* The world's cell size; prCreateSpatialHash stores 1 / cellSize.
CellSize == 4

\* `const int minX = key.x * inverseCellSize`: the conversion of a float to
\* int truncates toward zero.
CellCoord(v) == IF v >= 0 THEN v \div CellSize ELSE -((-v) \div CellSize)

CellMinX(aabb) == CellCoord(aabb.x)
CellMinY(aabb) == CellCoord(aabb.y)
CellMaxX(aabb) == CellCoord(aabb.x + aabb.width)
CellMaxY(aabb) == CellCoord(aabb.y + aabb.height)

\* The cells the two nested loops of insert and query visit.
CellsOf(aabb) ==
    {<<x, y>> : x \in CellMinX(aabb)..CellMaxX(aabb),
                y \in CellMinY(aabb)..CellMaxY(aabb)}

prCreateSpatialHash == <<>>

prClearSpatialHash(sh) == [c \in DOMAIN sh |-> <<>>]

prInsertToSpatialHash(sh, key, value) ==
    [c \in (DOMAIN sh) \cup CellsOf(key) |->
        IF c \in CellsOf(key)
        THEN Append(IF c \in DOMAIN sh THEN sh[c] ELSE <<>>, value)
        ELSE sh[c]]

\* The collection loop of prQuerySpatialHash: rows from minY, cells from minX,
\* the values of each existing cell appended to queryResult.
RECURSIVE CollectCells(_, _, _, _)
CollectCells(sh, aabb, k, acc) ==
    LET w == CellMaxX(aabb) - CellMinX(aabb) + 1
        h == CellMaxY(aabb) - CellMinY(aabb) + 1
        c == <<CellMinX(aabb) + (k % w), CellMinY(aabb) + (k \div w)>>
    IN  IF w <= 0 \/ h <= 0 \/ k >= w * h THEN acc
        ELSE CollectCells(sh, aabb, k + 1,
                          IF c \in DOMAIN sh THEN acc \o sh[c] ELSE acc)

prQSortCompare(x, y) == x < y

\* The deduplication loop, in place on queryResult `q` (0-based index i is
\* q[i + 1] here).  In its last round the loop reads queryResult[oldLength],
\* one element past the collected values: `past` is what that read yields.
RECURSIVE DedupLoop(_, _, _, _, _)
DedupLoop(q, i, newLength, oldLength, past) ==
    IF i >= oldLength THEN <<q, newLength>>
    ELSE LET next == IF i + 1 < oldLength THEN q[i + 2] ELSE past
         IN  IF q[i + 1] # next
             THEN DedupLoop([q EXCEPT ![newLength + 1] = q[i + 1]],
                            i + 1, newLength + 1, oldLength, past)
             ELSE DedupLoop(q, i + 1, newLength, oldLength, past)

\* Sort and deduplicate.  When the loop kept nothing, the check after it
\* reads queryResult[newLength - 1] with newLength = 0, one element before the
\* array: `before` is what that read yields.
DedupQueryResult(q, past, before) ==
    LET oldLength == Len(q)
    IN  IF oldLength > 1
        THEN LET sorted == SortSeq(q, prQSortCompare)
                 r      == DedupLoop(sorted, 0, 0, oldLength, past)
                 arr    == r[1]
                 n      == r[2]
                 prev   == IF n >= 1 THEN arr[n] ELSE before
             IN  IF prev # arr[oldLength]
                 THEN SubSeq([arr EXCEPT ![n + 1] = arr[oldLength]], 1, n + 1)
                 ELSE SubSeq(arr, 1, n)
        ELSE q

\* prQuerySpatialHash: the values the callback is invoked with, in order.
prQuerySpatialHash(sh, aabb, past, before) ==
    DedupQueryResult(CollectCells(sh, aabb, 0, <<>>), past, before)

(***************************************************************************)
(* Shapes and the narrow phase for circles (geometry.c, collision.c).      *)
(***************************************************************************)

BodyIds == {1, 2, 3}

\* Every body is created with prCreateBodyFromShape and a circle of its own;
\* the material's density makes the circle's mass (density * area) 1.
ShapeOf(b) == [radius |-> 1, mass |-> 1, friction |-> 2, restitution |-> 0]

prGetShapeMass(s) == s.mass
prGetShapeFriction(s) == s.friction
prGetShapeRestitution(s) == s.restitution
prGetCircleRadius(s) == s.radius

\* The circle branch of prGetShapeAABB, for a centre (position, 0).
prGetShapeAABB(s, position) ==
    [x |-> position - s.radius, y |-> 0 - s.radius,
     width |-> 2 * s.radius, height |-> 2 * s.radius]

\* `prCollision collision = { .count = 0 }`: every field zero.
ZeroContact ==
    [id |-> 0, point |-> 0, depth |-> 0, normalScalar |-> 0, tangentScalar |-> 0]
ZeroCollision ==
    [friction |-> 0, restitution |-> 0, direction |-> 0,
     contacts |-> <<ZeroContact, ZeroContact>>, count |-> 0]

Abs(v) == IF v < 0 THEN -v ELSE v

\* prComputeCollisionCircles on the x axis: the vector between the centres is
\* (p2 - p1, 0), its magnitude |p2 - p1|.
prComputeCollision(s1, p1, s2, p2, collision) ==
    LET direction == p2 - p1
        radiusSum == prGetCircleRadius(s1) + prGetCircleRadius(s2)
        magnitudeSqr == direction * direction
        magnitude == Abs(direction)
        dir == IF magnitude > 0 THEN direction \div magnitude ELSE 1
        c0 == [collision.contacts[1] EXCEPT
                 !.id = 0,
                 !.point = p1 + dir * prGetCircleRadius(s1),
                 !.depth = IF magnitude > 0 THEN radiusSum - magnitude
                           ELSE prGetCircleRadius(s1)]
    IN  IF radiusSum * radiusSum < magnitudeSqr
        THEN [result |-> FALSE, collision |-> collision]
        ELSE [result |-> TRUE,
              collision |-> [collision EXCEPT !.direction = dir,
                                              !.contacts = <<c0, c0>>,
                                              !.count = 1]]

(***************************************************************************)
(* Rigid bodies (rigid-body.c).                                             *)
(***************************************************************************)

\* prComputeBodyMass: mass and inverse mass from the type (no flags are set).
prComputeBodyMass(bd, b) ==
    LET m == prGetShapeMass(ShapeOf(b))
    IN  CASE bd.type = "STATIC" ->
               [bd EXCEPT !.mass = 0, !.inverseMass = 0, !.velocity = 0]
          [] bd.type = "DYNAMIC" ->
               [bd EXCEPT !.mass = m,
                          !.inverseMass = IF m > 0 THEN 1 \div m ELSE 0]
          [] OTHER ->
               [bd EXCEPT !.mass = 0, !.inverseMass = 0]

\* prCreateBodyFromShape: calloc, type, position, gravity scale, prSetBodyShape.
prCreateBodyFromShape(type, position, b) ==
    prComputeBodyMass(
        [type |-> type, position |-> position,
         aabb |-> prGetShapeAABB(ShapeOf(b), position),
         mass |-> 0, inverseMass |-> 0, gravityScale |-> 1,
         velocity |-> 0, force |-> 0], b)

prGetBodyAABB(bd) == bd.aabb
prGetBodyInverseMass(bd) == bd.inverseMass

prSetBodyType(bd, b, type) == prComputeBodyMass([bd EXCEPT !.type = type], b)

prSetBodyPosition(bd, b, position) ==
    [bd EXCEPT !.position = position,
               !.aabb = prGetShapeAABB(ShapeOf(b), position)]

prSetBodyVelocity(bd, velocity) == [bd EXCEPT !.velocity = velocity]

prClearBodyForces(bd) == [bd EXCEPT !.force = 0]

prApplyGravityToBody(bd, g) ==
    IF bd.mass <= 0 THEN bd
    ELSE [bd EXCEPT !.force = @ + g * (bd.gravityScale * bd.mass)]

prApplyImpulseToBody(bd, impulse) ==
    IF bd.inverseMass <= 0 THEN bd
    ELSE [bd EXCEPT !.velocity = @ + impulse * bd.inverseMass]

prIntegrateForBodyVelocity(bd, dt) ==
    IF bd.inverseMass <= 0 \/ dt <= 0 THEN bd
    ELSE [bd EXCEPT !.velocity = @ + bd.force * (bd.inverseMass * dt)]

prIntegrateForBodyPosition(bd, b, dt) ==
    IF bd.type = "STATIC" \/ dt <= 0 THEN bd
    ELSE LET p == bd.position + bd.velocity * dt
         IN  [bd EXCEPT !.position = p,
                        !.aabb = prGetShapeAABB(ShapeOf(b), p)]

\* Baumgarte factor 0.24 and slop 0.01, in hundredths.
PR_WORLD_BAUMGARTE_FACTOR == 24
PR_WORLD_BAUMGARTE_SLOP   == 1

\* One round of the contact loop of the resolver.  `bs` is the function of
\* all bodies.  On the x axis the contact point, the direction and both
\* velocities are collinear: the cross products with the direction are 0, and
\* the relative velocity has no tangential part, so the tangent scalar,
\* clamped to +-friction * normalScalar, is 0.
ResolveContact(bs, b1, b2, ctx, i, inverseDt) ==
    LET relVelocity == bs[b2].velocity - bs[b1].velocity
        relVelocityDot == relVelocity * ctx.direction
        normalMass == bs[b1].inverseMass + bs[b2].inverseMass
        biasScalar ==
            (PR_WORLD_BAUMGARTE_FACTOR * inverseDt
               * Max(0, 100 * ctx.contacts[i].depth - PR_WORLD_BAUMGARTE_SLOP))
            \div 10000
        normalScalar ==
            ((1 + ctx.restitution) * (0 - relVelocityDot) + biasScalar)
            \div normalMass
        normalImpulse == ctx.direction * normalScalar
        maxTangentScalar == ctx.friction * normalScalar
        tangentScalar == Min(Max(0, 0 - maxTangentScalar), maxTangentScalar)
        bs1 == [bs  EXCEPT ![b1] = prApplyImpulseToBody(@, 0 - normalImpulse)]
        bs2 == [bs1 EXCEPT ![b2] = prApplyImpulseToBody(@, normalImpulse)]
    IN  IF relVelocityDot > 0
        THEN [bs |-> bs, ctx |-> ctx]
        ELSE [bs |-> bs2,
              ctx |-> [ctx EXCEPT !.contacts[i].normalScalar = normalScalar,
                                  !.contacts[i].tangentScalar = tangentScalar]]

\* A contact loop that runs over both contact slots, whatever `count` is.
RECURSIVE MutResolveContacts(_, _, _, _, _, _)
MutResolveContacts(bs, b1, b2, ctx, i, inverseDt) ==
    IF i > 2 THEN [bs |-> bs, ctx |-> ctx]
    ELSE LET r == ResolveContact(bs, b1, b2, ctx, i, inverseDt)
         IN  MutResolveContacts(r.bs, b1, b2, r.ctx, i + 1, inverseDt)

\* `for (int i = 0; i < ctx->count; i++)`
RECURSIVE ResolveContacts(_, _, _, _, _, _)
ResolveContacts(bs, b1, b2, ctx, i, inverseDt) ==
    IF i > ctx.count THEN [bs |-> bs, ctx |-> ctx]
    ELSE LET r == ResolveContact(bs, b1, b2, ctx, i, inverseDt)
         IN  ResolveContacts(r.bs, b1, b2, r.ctx, i + 1, inverseDt)

\* The resolver: a pair of two infinite masses only has the velocities of its
\* static bodies reset.
prResolveCollision(bs, b1, b2, ctx, inverseDt) ==
    IF bs[b1].inverseMass + bs[b2].inverseMass <= 0
    THEN LET z(b, f) == IF f[b].type = "STATIC"
                        THEN [f EXCEPT ![b].velocity = 0] ELSE f
         IN  [bs |-> z(b2, z(b1, bs)), ctx |-> ctx]
    ELSE ResolveContacts(bs, b1, b2, ctx, 1, inverseDt)

\* Warm start: the cached scalars of every contact are applied once as
\* impulses, negatively to the first body and positively to the second.
RECURSIVE ApplyAccumulated(_, _, _, _, _)
ApplyAccumulated(bs, b1, b2, ctx, i) ==
    IF i > ctx.count THEN bs
    ELSE LET impulse == ctx.direction * ctx.contacts[i].normalScalar
             bs1 == [bs  EXCEPT ![b1] = prApplyImpulseToBody(@, 0 - impulse)]
             bs2 == [bs1 EXCEPT ![b2] = prApplyImpulseToBody(@, impulse)]
         IN  ApplyAccumulated(bs2, b1, b2, ctx, i + 1)

prApplyAccumulatedImpulses(bs, b1, b2, ctx) == ApplyAccumulated(bs, b1, b2, ctx, 1)

(***************************************************************************)
(* The contact cache (world.c): an stb_ds hash map of prContactCacheEntry,  *)
(* keyed by the bytes of prBodyPair { first, second }, stored as an array.  *)
(***************************************************************************)

CacheIndex(c, key) ==
    IF \E i \in 1..Len(c) : c[i].key = key
    THEN CHOOSE i \in 1..Len(c) : c[i].key = key
    ELSE 0

\* hmdel: the last entry moves into the slot of the deleted one.
hmdel(c, key) ==
    LET i == CacheIndex(c, key)
    IN  IF i = 0 THEN c
        ELSE SubSeq([c EXCEPT ![i] = c[Len(c)]], 1, Len(c) - 1)

\* hmputs: an existing key is overwritten in its slot, a new one is appended.
hmputs(c, e) ==
    LET i == CacheIndex(c, e.key)
    IN  IF i = 0 THEN Append(c, e) ELSE [c EXCEPT ![i] = e]

NoEntry == [count |-> -1]

\* hmgetp_null: the value stored under `key`, or NoEntry.
hmgetp_null(c, key) ==
    IF CacheIndex(c, key) = 0 THEN NoEntry ELSE c[CacheIndex(c, key)].value

\* A search that runs over both contact slots, whatever `count` is.
MutFindContact(entry, id) ==
    IF \E j \in 1..2 : entry.contacts[j].id = id
    THEN CHOOSE j \in 1..2 :
             /\ entry.contacts[j].id = id
             /\ \A k \in 1..(j - 1) : entry.contacts[k].id # id
    ELSE -1

\* The inner loop over the previous entry's contacts: the first j < count
\* with the same id, or -1.
FindContact(entry, id) ==
    IF \E j \in 1..entry.count : entry.contacts[j].id = id
    THEN CHOOSE j \in 1..entry.count :
             /\ entry.contacts[j].id = id
             /\ \A k \in 1..(j - 1) : entry.contacts[k].id # id
    ELSE -1

\* The loop body for contact i of the fresh collision.
CarryContact(entry, contact) ==
    LET k == FindContact(entry, contact.id)
    IN  IF k >= 0
        THEN [contact EXCEPT !.normalScalar = entry.contacts[k].normalScalar,
                             !.tangentScalar = entry.contacts[k].tangentScalar]
        ELSE [contact EXCEPT !.normalScalar = 0, !.tangentScalar = 0]

\* What prPreStepHashQueryCallback stores for a colliding pair: `entry` is the
\* previous value under the key (or NoEntry), `collision` the narrow phase's
\* result, s1 and s2 the two shapes.
RefreshCollision(entry, collision, s1, s2) ==
    IF entry # NoEntry
    THEN [collision EXCEPT
            !.friction = entry.friction,
            !.restitution = entry.restitution,
            !.contacts = [i \in 1..2 |->
                            IF i <= collision.count
                            THEN CarryContact(entry, collision.contacts[i])
                            ELSE collision.contacts[i]]]
    ELSE LET f == (prGetShapeFriction(s1) + prGetShapeFriction(s2)) \div 2
             r == Min(prGetShapeRestitution(s1), prGetShapeRestitution(s2))
         IN  [collision EXCEPT !.friction = IF f <= 0 THEN 0 ELSE f,
                               !.restitution = IF r <= 0 THEN 0 ELSE r]

\* A test that lets a body through against itself.
MutRejectsIndex(bodyIndex, otherBodyIndex) == otherBodyIndex < bodyIndex

\* `if (otherBodyIndex <= queryCtx->bodyIndex) return false;`
RejectsIndex(bodyIndex, otherBodyIndex) == otherBodyIndex <= bodyIndex

\* prPreStepHashQueryCallback(otherBodyIndex, { world, bodyIndex }): the cache
\* after the call, the index pair when the narrow phase ran (`ran`) and the
\* key when it found a collision (`hit`).
\* Indices are 0-based as in the code; bs[i + 1] is w->bodies[i].
prPreStepHashQueryCallback(bl, bs, c, bodyIndex, otherBodyIndex) ==
    IF RejectsIndex(bodyIndex, otherBodyIndex)
    THEN [cache |-> c, hit |-> <<>>, ran |-> <<>>]
    ELSE
      LET b1 == bl[bodyIndex + 1]
          b2 == bl[otherBodyIndex + 1]
          key == <<b1, b2>>
          cc == prComputeCollision(ShapeOf(b1), bs[b1].position,
                                   ShapeOf(b2), bs[b2].position, ZeroCollision)
          ran == << <<bodyIndex, otherBodyIndex>> >>
      IN  IF prGetBodyInverseMass(bs[b1]) + prGetBodyInverseMass(bs[b2]) <= 0
          THEN [cache |-> c, hit |-> <<>>, ran |-> <<>>]
          ELSE IF ~cc.result
          THEN [cache |-> hmdel(c, key), hit |-> <<>>, ran |-> ran]
          ELSE [cache |-> hmputs(c, [key |-> key,
                                     value |-> RefreshCollision(
                                         hmgetp_null(c, key), cc.collision,
                                         ShapeOf(b1), ShapeOf(b2))]),
                hit |-> <<key>>, ran |-> ran]

\* The callback invoked for every value of one query result, in order.
RECURSIVE RunQueryCallbacks(_, _, _, _, _, _)
RunQueryCallbacks(bl, bs, acc, bodyIndex, result, k) ==
    IF k > Len(result) THEN acc
    ELSE LET r == prPreStepHashQueryCallback(bl, bs, acc.cache, bodyIndex, result[k])
         IN  RunQueryCallbacks(bl, bs,
                 [cache |-> r.cache, hits |-> acc.hits \cup Range(r.hit),
                  narrow |-> acc.narrow \o r.ran],
                 bodyIndex, result, k + 1)

\* The first loop of prPreStepWorld: every body's AABB inserted under its index.
RECURSIVE InsertBodies(_, _, _, _)
InsertBodies(sh, bl, bs, i) ==
    IF i >= Len(bl) THEN sh
    ELSE InsertBodies(prInsertToSpatialHash(sh, prGetBodyAABB(bs[bl[i + 1]]), i),
                      bl, bs, i + 1)

\* The body of each loop of prStepWorld and prPostStepWorld over w->bodies.
BodyLoopBody(loop, bd, b, g, dt) ==
    CASE loop = "velocity" ->
           prIntegrateForBodyVelocity(prApplyGravityToBody(bd, g), dt)
      [] loop = "position" -> prIntegrateForBodyPosition(bd, b, dt)
      [] loop = "clearForces" -> prClearBodyForces(bd)

\* A loop of prStepWorld over the body array, from slot i on.
RECURSIVE ForEachBody(_, _, _, _, _, _)
ForEachBody(loop, bl, bs, i, g, dt) ==
    IF i > Len(bl) THEN bs
    ELSE ForEachBody(loop, bl,
                     [bs EXCEPT ![bl[i]] = BodyLoopBody(loop, @, bl[i], g, dt)],
                     i + 1, g, dt)

\* The body of each loop of prStepWorld over w->cache: the call for the
\* entry's key and value.
EntryLoopBody(loop, bs, b1, b2, ctx, inverseDt) ==
    CASE loop = "warmStart" ->
           [bs |-> prApplyAccumulatedImpulses(bs, b1, b2, ctx), ctx |-> ctx]
      [] loop = "solve" -> prResolveCollision(bs, b1, b2, ctx, inverseDt)

\* A loop of prStepWorld over the contact cache, from entry j on.
RECURSIVE ForEachEntry(_, _, _, _, _)
ForEachEntry(loop, bs, c, j, inverseDt) ==
    IF j > Len(c) THEN [bs |-> bs, cache |-> c]
    ELSE LET r == EntryLoopBody(loop, bs, c[j].key[1], c[j].key[2], c[j].value,
                                inverseDt)
         IN  ForEachEntry(loop, r.bs, [c EXCEPT ![j].value = r.ctx], j + 1,
                          inverseDt)

(***************************************************************************)
(* The world (world.c): state after prCreateWorld and the public calls.    *)
(***************************************************************************)

\* The bodies the program creates, with prCreateBodyFromShape.
InitType     == <<"DYNAMIC", "DYNAMIC", "STATIC">>
InitPosition == <<0, 1, 9>>

\* The arguments the calls are made with.
WorldGravity    == <<1, 0>>
BodyTypes       == {"STATIC", "DYNAMIC"}
PositionChoices == {8}
StepArguments   == {<<1, 1>>, <<1, 0>>, <<1, -1>>, <<NULL, 1>>}
HandlerChoices  == [preStep : BOOLEAN, postStep : BOOLEAN]

\* What a read outside the collected values of queryResult can yield: any int;
\* here any value the hash may hold, or another one.
Garbage == {-1, 0, 1, 2}

NoCall == [op |-> "none", w |-> NULL, dt |-> 0, b |-> NULL]
NoUpdate == [now |-> 0, timestamp |-> 0, accumulator |-> 0, dt |-> 0, steps |-> 0]
NoQuery == [inserted |-> {}, queried |-> FALSE,
            aabb |-> [x |-> 0, y |-> 0, width |-> 0, height |-> 0],
            calls |-> <<>>, n |-> 0]
NoRefresh == [done |-> FALSE, entry |-> NoEntry, collision |-> ZeroCollision,
              value |-> ZeroCollision]

NoMaterials == [n |-> 0]
NoBody == [op |-> "none", n |-> 0]
NoPolygon == [done |-> FALSE]
NoManifold == [done |-> FALSE]
NoPair == [pc |-> "none"]
NoRay == [done |-> FALSE]

\* The variables of the other developments at rest.
UnitInit ==
    /\ mt = NoMaterials /\ rb = NoBody /\ pg = NoPolygon /\ np = NoManifold
    /\ rs = NoPair /\ rc = NoRay /\ shapesFreed = {}

\* prCreateWorld: calloc, the gravity, an empty spatial hash.
InitWorld ==
    /\ bodies = <<>>
    /\ body = [b \in BodyIds |-> prCreateBodyFromShape(InitType[b], InitPosition[b], b)]
    /\ hash = prCreateSpatialHash
    /\ cache = <<>>
    /\ handler = [preStep |-> FALSE, postStep |-> FALSE]
    /\ accumulator = 0
    /\ timestamp = 0
    /\ pc = "idle" /\ qi = 0 /\ stepDt = 0 /\ caller = "none"
    /\ clock = 0
    /\ events = <<>> /\ hits = {} /\ narrow = <<>>
    /\ ret = TRUE /\ lastCall = NoCall
    /\ clockReads = 0 /\ freed = {} /\ ops = 0 /\ steps = 0 /\ upd = NoUpdate

Init == InitWorld /\ hq = NoQuery /\ tr = NoRefresh /\ UnitInit

\* A public call is made: the history of it.
Called(op, w, dt, b) ==
    /\ pc = "idle"
    /\ ops < MaxOps
    /\ ops' = ops + 1
    /\ lastCall' = [op |-> op, w |-> w, dt |-> dt, b |-> b]

\* An add that tests the capacity with `>` instead of `>=`.
MutAddBodyToWorld(bl, b) ==
    IF b = NULL \/ Len(bl) > PR_WORLD_MAX_OBJECT_COUNT
    THEN [bodies |-> bl, result |-> FALSE]
    ELSE [bodies |-> Append(bl, b), result |-> TRUE]

prAddBodyToWorld(bl, b) ==
    IF b = NULL \/ Len(bl) >= PR_WORLD_MAX_OBJECT_COUNT
    THEN [bodies |-> bl, result |-> FALSE]
    ELSE [bodies |-> Append(bl, b), result |-> TRUE]

\* A remove that shortens the array without moving the last body into slot i.
MutRemoveBodyFromWorld(bl, b) ==
    IF b = NULL \/ ~(\E i \in 1..Len(bl) : bl[i] = b)
    THEN [bodies |-> bl, result |-> FALSE]
    ELSE [bodies |-> SubSeq(bl, 1, Len(bl) - 1), result |-> TRUE]

\* arrdelswap(w->bodies, i) for the first i with w->bodies[i] == b.
prRemoveBodyFromWorld(bl, b) ==
    IF b = NULL \/ ~(\E i \in 1..Len(bl) : bl[i] = b)
    THEN [bodies |-> bl, result |-> FALSE]
    ELSE LET i == CHOOSE i \in 1..Len(bl) :
                      bl[i] = b /\ \A k \in 1..(i - 1) : bl[k] # b
         IN  [bodies |-> SubSeq([bl EXCEPT ![i] = bl[Len(bl)]], 1, Len(bl) - 1),
              result |-> TRUE]

AddBodyToWorld(b) ==
    /\ Called("add", 1, 0, b)
    /\ bodies' = prAddBodyToWorld(bodies, b).bodies
    /\ ret' = prAddBodyToWorld(bodies, b).result
    /\ events' = <<>>
    /\ UNCHANGED <<body, hash, cache, handler, accumulator, timestamp, ctlVars,
                   clock, hits, narrow, clockReads, freed, steps, upd,
                   hq, tr, unitVars>>

RemoveBodyFromWorld(b) ==
    /\ Called("remove", 1, 0, b)
    /\ bodies' = prRemoveBodyFromWorld(bodies, b).bodies
    /\ ret' = prRemoveBodyFromWorld(bodies, b).result
    /\ events' = <<>>
    /\ UNCHANGED <<body, hash, cache, handler, accumulator, timestamp, ctlVars,
                   clock, hits, narrow, clockReads, freed, steps, upd,
                   hq, tr, unitVars>>

ClearWorld ==
    /\ Called("clear", 1, 0, NULL)
    /\ hash' = prClearSpatialHash(hash)
    /\ bodies' = <<>>
    /\ events' = <<>>
    /\ UNCHANGED <<body, cache, handler, accumulator, timestamp, ctlVars,
                   clock, hits, narrow, ret, clockReads, freed, steps, upd,
                   hq, tr, unitVars>>

\* prReleaseWorld: prReleaseBody (free) for every body of the array, then the
\* hash, the array, the cache and the world itself are freed.
ReleaseWorld ==
    /\ Called("release", 1, 0, NULL)
    /\ freed' = freed \cup Range(bodies)
    /\ pc' = "released"
    /\ events' = <<>>
    /\ UNCHANGED <<worldVars, qi, stepDt, caller,
                   clock, hits, narrow, ret, clockReads, steps, upd,
                   hq, tr, unitVars>>

SetWorldCollisionHandler(h) ==
    /\ Called("handler", 1, 0, NULL)
    /\ handler' = h
    /\ events' = <<>>
    /\ UNCHANGED <<bodies, body, hash, cache, accumulator, timestamp, ctlVars,
                   clock, hits, narrow, ret, clockReads, freed, steps, upd,
                   hq, tr, unitVars>>

SetBodyPosition(b, position) ==
    /\ Called("position", 1, 0, b)
    /\ body' = [body EXCEPT ![b] = prSetBodyPosition(@, b, position)]
    /\ events' = <<>>
    /\ UNCHANGED <<bodies, hash, cache, handler, accumulator, timestamp, ctlVars,
                   clock, hits, narrow, ret, clockReads, freed, steps, upd,
                   hq, tr, unitVars>>

SetBodyType(b, type) ==
    /\ Called("type", 1, 0, b)
    /\ body' = [body EXCEPT ![b] = prSetBodyType(@, b, type)]
    /\ events' = <<>>
    /\ UNCHANGED <<bodies, hash, cache, handler, accumulator, timestamp, ctlVars,
                   clock, hits, narrow, ret, clockReads, freed, steps, upd,
                   hq, tr, unitVars>>

(***************************************************************************)
(* prStepWorld and prUpdateWorld.  A step runs phase by phase; `pc` is the  *)
(* phase about to run, and no other call is made while a step runs (the     *)
(* engine is single-threaded and a callback must not re-enter the world).   *)
(***************************************************************************)

\* An order with the warm start before gravity and velocity integration.
MutPhaseAfter(p) ==
    CASE p = "query"         -> "preStep"
      [] p = "preStep"       -> "warmStart"
      [] p = "warmStart"     -> "velocity"
      [] p = "velocity"      -> "solve"
      [] p = "solve"         -> "position"
      [] p = "position"      -> "postStep"
      [] p = "postStep"      -> "postStepWorld"
      [] p = "postStepWorld" -> "idle"

\* The order of the loops in the body of prStepWorld.
PhaseAfter(p) ==
    CASE p = "query"         -> "preStep"
      [] p = "preStep"       -> "velocity"
      [] p = "velocity"      -> "warmStart"
      [] p = "warmStart"     -> "solve"
      [] p = "solve"         -> "position"
      [] p = "position"      -> "postStep"
      [] p = "postStep"      -> "postStepWorld"
      [] p = "postStepWorld" -> "idle"

EventsFor(tag, n) == [i \in 1..n |-> <<tag, i - 1>>]

\* An early return that lets dt = 0 through.
MutStepWorldReturns(w, dt) == w = NULL \/ dt < 0

\* `if (w == NULL || dt <= 0.0f) return;`
prStepWorldReturns(w, dt) == w = NULL \/ dt <= 0
prUpdateWorldReturns(w, dt) == w = NULL \/ dt <= 0

\* prStepWorld enters prPreStepWorld, whose first loop fills the hash `sh`.
BeginStep(sh, dt, who) ==
    /\ steps < MaxSteps
    /\ steps' = steps + 1
    /\ hash' = InsertBodies(sh, bodies, body, 0)
    /\ events' = EventsFor("insert", Len(bodies))
    /\ hits' = {} /\ narrow' = <<>>
    /\ qi' = 0 /\ stepDt' = dt /\ caller' = who
    /\ pc' = IF Len(bodies) = 0 THEN PhaseAfter("query") ELSE "query"

StepWorld(w, dt) ==
    /\ Called("step", w, dt, NULL)
    /\ IF prStepWorldReturns(w, dt)
       THEN /\ events' = <<>>
            /\ UNCHANGED <<hash, hits, narrow, ctlVars, steps>>
       ELSE BeginStep(hash, dt, "step")
    /\ UNCHANGED <<bodies, body, cache, handler, accumulator, timestamp,
                   clock, ret, clockReads, freed, upd, hq, tr, unitVars>>

\* The first statements of prUpdateWorld:
\*     double currentTime = prGetCurrentTime();
\*     double elapsedTime = currentTime = w->timestamp;
\*     w->timestamp = currentTime, w->accumulator += elapsedTime;
\* `now` is what prGetCurrentTime returned: the clock is monotonic, so a value
\* not below the last one read.
prGetCurrentTime(last) == last..MaxClock

prUpdateWorldTime(now, ts, acc) ==
    LET currentTime == ts
        elapsedTime == currentTime
    IN  [timestamp |-> currentTime, accumulator |-> acc + elapsedTime]

UpdateWorld(w, dt) ==
    /\ Called("update", w, dt, NULL)
    /\ IF prUpdateWorldReturns(w, dt)
       THEN /\ events' = <<>>
            /\ UNCHANGED <<hash, hits, narrow, ctlVars, steps, clock,
                           accumulator, timestamp, clockReads, upd>>
       ELSE \E now \in prGetCurrentTime(clock) :
            LET t == prUpdateWorldTime(now, timestamp, accumulator)
            IN  /\ clock' = now
                /\ clockReads' = clockReads + 1
                /\ timestamp' = t.timestamp
                /\ accumulator' = t.accumulator
                /\ upd' = [now |-> now, timestamp |-> timestamp,
                           accumulator |-> accumulator, dt |-> dt, steps |-> 0]
                /\ IF t.accumulator >= dt
                   THEN BeginStep(hash, dt, "update")
                   ELSE /\ events' = <<>>
                        /\ UNCHANGED <<hash, hits, narrow, ctlVars, steps>>
    /\ UNCHANGED <<bodies, body, cache, handler, ret, freed, hq, tr, unitVars>>

\* The values the hash holds.
HashContent(sh) == UNION {Range(sh[c]) : c \in DOMAIN sh}

\* w->bodies[i] for an i at or past arrlen(w->bodies) reads outside the
\* array's length: what the slots up to the largest value of the hash may
\* yield, any body pointer each.  No slot when every value is below the length.
StaleSlots(bl, sh) ==
    LET top == CHOOSE t \in HashContent(sh) \cup {Len(bl) - 1} :
                   \A v \in HashContent(sh) \cup {Len(bl) - 1} : v <= t
    IN  [1..(top + 1 - Len(bl)) -> BodyIds]

\* One round of the second loop of prPreStepWorld: the query for body qi and
\* the callback for each value of its result.
PreStepQuery ==
    /\ pc = "query"
    /\ qi < Len(bodies)
    /\ \E result \in {prQuerySpatialHash(hash, prGetBodyAABB(body[bodies[qi + 1]]),
                                          past, before) :
                          past \in Garbage, before \in Garbage},
          stale \in StaleSlots(bodies, hash) :
         LET r == RunQueryCallbacks(bodies \o stale, body,
                                    [cache |-> cache, hits |-> hits,
                                     narrow |-> narrow],
                                    qi, result, 1)
         IN  cache' = r.cache /\ hits' = r.hits /\ narrow' = r.narrow
    /\ qi' = qi + 1
    /\ pc' = IF qi + 1 >= Len(bodies) THEN PhaseAfter("query") ELSE "query"
    /\ events' = Append(events, <<"query", qi>>)
    /\ UNCHANGED <<bodies, body, hash, handler, accumulator, timestamp,
                   stepDt, caller, clock, ret, lastCall, clockReads,
                   freed, ops, steps, upd, hq, tr, unitVars>>

\* The preStep callback for every cache entry; a callback may set the count
\* of its manifold to 0.
PreStepCallbacks ==
    /\ pc = "preStep"
    /\ IF handler.preStep
       THEN /\ \E Z \in SUBSET (1..Len(cache)) :
                 cache' = [j \in 1..Len(cache) |->
                             IF j \in Z THEN [cache[j] EXCEPT !.value.count = 0]
                             ELSE cache[j]]
            /\ events' = events \o EventsFor("preStep", Len(cache))
       ELSE UNCHANGED <<cache, events>>
    /\ pc' = PhaseAfter("preStep")
    /\ UNCHANGED <<bodies, body, hash, handler, accumulator, timestamp,
                   qi, stepDt, caller, clock, hits, narrow, ret, lastCall,
                   clockReads, freed, ops, steps, upd, hq, tr, unitVars>>

IntegrateVelocities ==
    /\ pc = "velocity"
    /\ body' = ForEachBody("velocity", bodies, body, 1, WorldGravity[1], stepDt)
    /\ events' = events \o EventsFor("velocity", Len(bodies))
    /\ pc' = PhaseAfter("velocity")
    /\ UNCHANGED <<bodies, hash, cache, handler, accumulator, timestamp,
                   qi, stepDt, caller, clock, hits, narrow, ret, lastCall,
                   clockReads, freed, ops, steps, upd, hq, tr, unitVars>>

WarmStart ==
    /\ pc = "warmStart"
    /\ body' = ForEachEntry("warmStart", body, cache, 1, 0).bs
    /\ events' = events \o EventsFor("warmStart", Len(cache))
    /\ pc' = PhaseAfter("warmStart")
    /\ UNCHANGED <<bodies, hash, cache, handler, accumulator, timestamp,
                   qi, stepDt, caller, clock, hits, narrow, ret, lastCall,
                   clockReads, freed, ops, steps, upd, hq, tr, unitVars>>

\* `const float inverseDt = 1.0f / dt;`
InverseDt(dt) == 1 \div dt

\* The iteration loop: in each round the resolver for every cache entry.
\* `r` holds the bodies, the cache and the history after i rounds.
RECURSIVE SolverIterations(_, _, _)
SolverIterations(r, i, inverseDt) ==
    IF i >= PR_WORLD_ITERATION_COUNT THEN r
    ELSE LET p == ForEachEntry("solve", r.bs, r.cache, 1, inverseDt)
         IN  SolverIterations(
                 [bs |-> p.bs, cache |-> p.cache,
                  events |-> r.events
                     \o [j \in 1..Len(r.cache) |-> <<"solve", i, j - 1>>]],
                 i + 1, inverseDt)

Solve ==
    /\ pc = "solve"
    /\ LET r == SolverIterations([bs |-> body, cache |-> cache,
                                  events |-> events], 0, InverseDt(stepDt))
       IN  body' = r.bs /\ cache' = r.cache /\ events' = r.events
    /\ pc' = PhaseAfter("solve")
    /\ UNCHANGED <<bodies, hash, handler, accumulator, timestamp,
                   qi, stepDt, caller, clock, hits, narrow, ret, lastCall,
                   clockReads, freed, ops, steps, upd, hq, tr, unitVars>>

IntegratePositions ==
    /\ pc = "position"
    /\ body' = ForEachBody("position", bodies, body, 1, WorldGravity[1], stepDt)
    /\ events' = events \o EventsFor("position", Len(bodies))
    /\ pc' = PhaseAfter("position")
    /\ UNCHANGED <<bodies, hash, cache, handler, accumulator, timestamp,
                   qi, stepDt, caller, clock, hits, narrow, ret, lastCall,
                   clockReads, freed, ops, steps, upd, hq, tr, unitVars>>

PostStepCallbacks ==
    /\ pc = "postStep"
    /\ events' = IF handler.postStep
                 THEN events \o EventsFor("postStep", Len(cache))
                 ELSE events
    /\ pc' = PhaseAfter("postStep")
    /\ UNCHANGED <<worldVars, qi, stepDt, caller, clock, hits, narrow, ret,
                   lastCall, clockReads, freed, ops, steps, upd,
                   hq, tr, unitVars>>

\* prPostStepWorld, the return of prStepWorld and, when prUpdateWorld called
\* it, the rest of that round of its loop: `w->accumulator -= dt` and the test
\* `w->accumulator >= dt`.
PostStepWorld ==
    /\ pc = "postStepWorld"
    /\ body' = ForEachBody("clearForces", bodies, body, 1, WorldGravity[1], stepDt)
    /\ accumulator' = IF caller = "update" THEN accumulator - stepDt
                      ELSE accumulator
    /\ upd' = IF caller = "update" THEN [upd EXCEPT !.steps = @ + 1] ELSE upd
    /\ IF caller = "update" /\ accumulator - stepDt >= stepDt
       THEN BeginStep(prClearSpatialHash(hash), stepDt, "update")
       ELSE /\ hash' = prClearSpatialHash(hash)
            /\ events' = events \o EventsFor("clearForces", Len(bodies))
                                \o <<<<"clearHash", 0>>>>
            /\ pc' = PhaseAfter("postStepWorld")
            /\ UNCHANGED <<qi, stepDt, caller, hits, narrow, steps>>
    /\ UNCHANGED <<bodies, cache, handler, timestamp, clock, ret, lastCall,
                   clockReads, freed, ops, hq, tr, unitVars>>

StepPhase ==
    \/ PreStepQuery
    \/ PreStepCallbacks
    \/ IntegrateVelocities
    \/ WarmStart
    \/ Solve
    \/ IntegratePositions
    \/ PostStepCallbacks
    \/ PostStepWorld

Next ==
    \/ \E b \in BodyIds : b \notin Range(bodies) /\ AddBodyToWorld(b)
    \/ \E b \in BodyIds : RemoveBodyFromWorld(b)
    \/ ClearWorld
    \/ ReleaseWorld
    \/ \E h \in HandlerChoices : SetWorldCollisionHandler(h)
    \/ \E b \in BodyIds, x \in PositionChoices : SetBodyPosition(b, x)
    \/ \E b \in BodyIds, t \in BodyTypes : SetBodyType(b, t)
    \/ \E a \in StepArguments : StepWorld(a[1], a[2])
    \/ \E a \in StepArguments : UpdateWorld(a[1], a[2])
    \/ StepPhase

Spec == Init /\ [][Next]_vars

(***************************************************************************)
(* Properties of the world, under Spec.                                     *)
(***************************************************************************)

\* The calls of one pass of the solver over m cache entries, for 12 passes.
SolveEvents(m) ==
    IF m = 0 THEN <<>>
    ELSE [k \in 1..(12 * m) |-> <<"solve", (k - 1) \div m, (k - 1) % m>>]

\* The calls of one step of a world of n bodies whose cache holds m entries
\* after the pre-step, with the handler h.
ExpectedEvents(n, m, h) ==
    EventsFor("insert", n) \o EventsFor("query", n)
    \o (IF h.preStep THEN EventsFor("preStep", m) ELSE <<>>)
    \o EventsFor("velocity", n)
    \o EventsFor("warmStart", m)
    \o SolveEvents(m)
    \o EventsFor("position", n)
    \o (IF h.postStep THEN EventsFor("postStep", m) ELSE <<>>)
    \o EventsFor("clearForces", n)
    \o <<<<"clearHash", 0>>>>

StepReturned ==
    pc = "idle" /\ lastCall.op = "step" /\ lastCall.w # NULL /\ lastCall.dt > 0

C2_CacheHoldsOnlyCollidingPairs ==
    pc = "preStep" => \A j \in 1..Len(cache) : cache[j].key \in hits

\* C3: the cache never holds two entries for the same two bodies.
C3_OneEntryPerUnorderedPair ==
    \A i, j \in 1..Len(cache) :
        i # j => {cache[i].key[1], cache[i].key[2]}
                   # {cache[j].key[1], cache[j].key[2]}

UpdateReturned ==
    pc = "idle" /\ lastCall.op = "update" /\ lastCall.w # NULL /\ lastCall.dt > 0

\* C5: when prUpdateWorld(w, dt) with dt > 0 has returned, the timestamp is
\* the clock reading of the call, the accumulator has gained the reading
\* minus the previous timestamp and lost dt for every step made, and
\* 0 <= accumulator < dt.
C5_UpdateAccumulates ==
    UpdateReturned =>
        /\ timestamp = upd.now
        /\ accumulator + upd.steps * lastCall.dt
             = upd.accumulator + (upd.now - upd.timestamp)
        /\ 0 <= accumulator /\ accumulator < lastCall.dt

\* C6: a call of prStepWorld or prUpdateWorld with a NULL world or dt <= 0
\* changes no body, no cache entry, not the hash, the accumulator or the
\* timestamp, does not read the clock and invokes no callback.
C6_NoOp ==
    [][(/\ pc = "idle"
        /\ ops' = ops + 1
        /\ lastCall'.op \in {"step", "update"}
        /\ (lastCall'.w = NULL \/ lastCall'.dt <= 0))
       => (/\ pc' = "idle"
           /\ events' = <<>>
           /\ UNCHANGED <<bodies, body, cache, hash, accumulator, timestamp,
                          clock, clockReads>>)]_vars

C6_Witness ==
    /\ pc = "idle"
    /\ lastCall.op \in {"step", "update"}
    /\ lastCall.dt <= 0
    /\ Len(cache) >= 1 /\ Len(bodies) >= 2
    /\ events = <<>>

\* C11: in the pair enumeration of a step the narrow phase runs for an index
\* pair (i, j) only with i < j, at most once for each pair, and never for two
\* bodies whose inverse masses are both 0; an entry the enumeration adds to
\* the cache or changes in it belongs to a pair the narrow phase ran for.
C11_NarrowPhasePairs ==
    [][pc = "query" =>
        /\ \A k \in 1..Len(narrow') :
              /\ narrow'[k][1] < narrow'[k][2]
              /\ narrow'[k][1] >= 0 /\ narrow'[k][2] < Len(bodies)
              /\ body[bodies[narrow'[k][1] + 1]].inverseMass
                   + body[bodies[narrow'[k][2] + 1]].inverseMass > 0
              /\ \A l \in 1..Len(narrow') :
                    k # l => {narrow'[k][1], narrow'[k][2]}
                               # {narrow'[l][1], narrow'[l][2]}
        /\ \A e \in Range(cache') \ Range(cache) :
              \E k \in (Len(narrow) + 1)..Len(narrow') :
                 e.key = <<bodies[narrow'[k][1] + 1], bodies[narrow'[k][2] + 1]>>
       ]_vars

\* The second step of a world of two overlapping bodies that became static
\* after the first: the enumeration is over, the narrow phase did not run,
\* and the entry of the first step is as it was.
C11_Witness ==
    /\ pc = "preStep" /\ steps = 2
    /\ Len(bodies) = 2
    /\ body[bodies[1]].inverseMass = 0 /\ body[bodies[2]].inverseMass = 0
    /\ CellsOf(body[bodies[1]].aabb) \cap CellsOf(body[bodies[2]].aabb) # {}
    /\ narrow = <<>>
    /\ Len(cache) = 1

(***************************************************************************)
(* The body list alone: any body or NULL may be passed to any call, also a  *)
(* body the list already holds.                                             *)
(***************************************************************************)

ListPool == BodyIds \cup {NULL}

NextList ==
    \/ \E b \in ListPool : AddBodyToWorld(b)
    \/ \E b \in ListPool : RemoveBodyFromWorld(b)
    \/ ClearWorld
    \/ ReleaseWorld

SpecList == Init /\ [][NextList]_vars

Count(bl, b) == Cardinality({i \in 1..Len(bl) : bl[i] = b})

\* C8: prRemoveBodyFromWorld(w, b) returns false and leaves the list as it
\* is when b is not in it; otherwise it returns true, the list loses one
\* occurrence of b and nothing else, and b is not freed.
C8_Remove ==
    [][(pc = "idle" /\ ops' = ops + 1 /\ lastCall'.op = "remove")
       => LET b == lastCall'.b
          IN  IF b \notin Range(bodies)
              THEN ret' = FALSE /\ bodies' = bodies /\ freed' = freed
              ELSE /\ ret' = TRUE
                   /\ Len(bodies') = Len(bodies) - 1
                   /\ Count(bodies', b) = Count(bodies, b) - 1
                   /\ \A c \in ListPool \ {b} :
                          Count(bodies', c) = Count(bodies, c)
                   /\ freed' = freed]_vars

\* A body that was in the list twice has been removed once, from a slot other
\* than the last: the last body moved into its slot.
C8_Witness ==
    /\ lastCall.op = "remove" /\ ret = TRUE
    /\ Len(bodies) = 3
    /\ lastCall.b = bodies[3]
    /\ bodies[1] # lastCall.b /\ bodies[2] # lastCall.b /\ bodies[1] # bodies[2]

(***************************************************************************)
(* The body list of a world that is full or nearly full.                    *)
(***************************************************************************)

\* Bodies that are not in the nearly full world, and NULL.
CapPool == {NULL, PR_WORLD_MAX_OBJECT_COUNT + 1, PR_WORLD_MAX_OBJECT_COUNT + 2}

InitNearlyFull ==
    /\ \E n \in (PR_WORLD_MAX_OBJECT_COUNT - ListSlack)..PR_WORLD_MAX_OBJECT_COUNT :
          bodies = [i \in 1..n |-> i]
    /\ body = [b \in BodyIds |-> prCreateBodyFromShape(InitType[b], InitPosition[b], b)]
    /\ hash = prCreateSpatialHash
    /\ cache = <<>>
    /\ handler = [preStep |-> FALSE, postStep |-> FALSE]
    /\ accumulator = 0
    /\ timestamp = 0
    /\ pc = "idle" /\ qi = 0 /\ stepDt = 0 /\ caller = "none"
    /\ clock = 0
    /\ events = <<>> /\ hits = {} /\ narrow = <<>>
    /\ ret = TRUE /\ lastCall = NoCall
    /\ clockReads = 0 /\ freed = {} /\ ops = 0 /\ steps = 0 /\ upd = NoUpdate
    /\ hq = NoQuery /\ tr = NoRefresh /\ UnitInit

NextCap ==
    /\ ops < MaxListOps
    /\ \/ \E b \in CapPool : AddBodyToWorld(b)
       \/ \E b \in CapPool \cup {1, PR_WORLD_MAX_OBJECT_COUNT} : RemoveBodyFromWorld(b)
       \/ ClearWorld

SpecCap == InitNearlyFull /\ [][NextCap]_vars

\* C7: a world never holds more than 4096 bodies; prAddBodyToWorld on a
\* world of 4096 bodies returns false and leaves the list as it is, and an
\* add that returns true has appended its body.
C7_Capacity ==
    [][/\ Len(bodies) <= 4096 /\ Len(bodies') <= 4096
       /\ (pc = "idle" /\ ops' = ops + 1 /\ lastCall'.op = "add")
           => /\ Len(bodies) = 4096 => (ret' = FALSE /\ bodies' = bodies)
              /\ ret' = TRUE => bodies' = Append(bodies, lastCall'.b)
              /\ ret' = FALSE => bodies' = bodies]_vars

\* An add was refused by a full world after an add that filled it.
C7_Witness ==
    /\ lastCall.op = "add" /\ lastCall.b # NULL /\ ret = FALSE
    /\ Len(bodies) = 4096
    /\ bodies[4096] = PR_WORLD_MAX_OBJECT_COUNT + 1

(***************************************************************************)
(* The spatial hash alone, as its public calls use it.                      *)
(***************************************************************************)

HashValues == {0, 1}

\* AABBs {x, y, width, height}: one cell, two cells of a row, two cells of a
\* row left of the origin, a cell apart from the others, two cells of a
\* column.
AabbChoices ==
    {[x |-> 0,  y |-> 0, width |-> 2, height |-> 2],
     [x |-> 2,  y |-> 0, width |-> 5, height |-> 2],
     [x |-> -6, y |-> 0, width |-> 5, height |-> 2],
     [x |-> 9,  y |-> 0, width |-> 2, height |-> 2],
     [x |-> 0,  y |-> 0, width |-> 2, height |-> 5]}

HashInsert(aabb, value) ==
    /\ hq.n < MaxInserts
    /\ hash' = prInsertToSpatialHash(hash, aabb, value)
    /\ hq' = [hq EXCEPT !.inserted = @ \cup {[value |-> value, aabb |-> aabb]},
                        !.queried = FALSE, !.calls = <<>>, !.n = @ + 1]
    /\ UNCHANGED <<bodies, body, cache, handler, accumulator, timestamp,
                   ctlVars, clock, histVars, tr, unitVars>>

\* One query; hq.calls are the values the callback was invoked with.
HashQuery(aabb) ==
    /\ hq.inserted # {}
    /\ \E past \in Garbage, before \in Garbage :
         hq' = [hq EXCEPT !.queried = TRUE, !.aabb = aabb,
                          !.calls = prQuerySpatialHash(hash, aabb, past, before)]
    /\ UNCHANGED <<worldVars, ctlVars, clock, histVars, tr, unitVars>>

HashClear ==
    /\ hq.inserted # {}
    /\ hash' = prClearSpatialHash(hash)
    /\ hq' = [hq EXCEPT !.inserted = {}, !.queried = FALSE, !.calls = <<>>]
    /\ UNCHANGED <<bodies, body, cache, handler, accumulator, timestamp,
                   ctlVars, clock, histVars, tr, unitVars>>

NextHash ==
    \/ \E aabb \in AabbChoices, value \in HashValues : HashInsert(aabb, value)
    \/ \E aabb \in AabbChoices : HashQuery(aabb)
    \/ HashClear

SpecHash == Init /\ [][NextHash]_vars

\* Two AABBs overlap: they have a point in common.
Overlaps(a, b) ==
    /\ a.x <= b.x + b.width  /\ b.x <= a.x + a.width
    /\ a.y <= b.y + b.height /\ b.y <= a.y + a.height

\* The values in the cells a query with `aabb` visits.
ValuesIn(sh, aabb) ==
    UNION {Range(sh[c]) : c \in CellsOf(aabb) \cap DOMAIN sh}

\* C9: after a query with AABB B, every value inserted since the last clear
\* with an AABB that overlaps B was passed to the callback, and no value was
\* passed whose insertions all went to cells B does not cover.
C9_QueryFindsOverlaps ==
    hq.queried =>
        /\ \A e \in hq.inserted :
              Overlaps(e.aabb, hq.aabb) => e.value \in Range(hq.calls)
        /\ \A v \in Range(hq.calls) :
              \E e \in hq.inserted :
                 e.value = v /\ CellsOf(e.aabb) \cap CellsOf(hq.aabb) # {}

\* C10: the callback of one query is invoked exactly once with every value
\* found in the queried cells, and with nothing else.
C10_OncePerValue ==
    hq.queried =>
        /\ \A i, j \in 1..Len(hq.calls) : i # j => hq.calls[i] # hq.calls[j]
        /\ Range(hq.calls) = ValuesIn(hash, hq.aabb)

(***************************************************************************)
(* The refresh of a cache entry, as a function of the previous entry and   *)
(* the narrow phase's result.                                               *)
(***************************************************************************)

ContactIds == {0, 1, 2}

\* Contacts of a previous entry: any id, the scalars a resolver left.
CachedContacts ==
    [id : ContactIds, point : {0}, depth : {1},
     normalScalar : {0, 5}, tangentScalar : {-3, 0}]

\* Previous entries: none, or a manifold of 0 (emptied by a preStep
\* callback), 1 or 2 contacts.
Entries ==
    {NoEntry} \cup
    [friction : {7}, restitution : {0}, direction : {1},
     contacts : [1..2 -> CachedContacts], count : 0..2]

\* Results of the narrow phase on a zeroed prCollision: 1 or 2 contacts with
\* an id each and zero scalars.
FreshCollisions ==
    [friction : {0}, restitution : {0}, direction : {1},
     contacts : [1..2 -> [id : ContactIds, point : {0}, depth : {1},
                          normalScalar : {0}, tangentScalar : {0}]],
     count : 1..2]

InitRefresh ==
    /\ InitWorld /\ hq = NoQuery /\ UnitInit
    /\ tr \in [done : {FALSE}, entry : Entries, collision : FreshCollisions,
               value : {ZeroCollision}]

Refresh ==
    /\ ~tr.done
    /\ tr' = [tr EXCEPT !.done = TRUE,
                        !.value = RefreshCollision(tr.entry, tr.collision,
                                                   ShapeOf(1), ShapeOf(2))]
    /\ UNCHANGED <<worldVars, ctlVars, clock, histVars, hq, unitVars>>

SpecRefresh == InitRefresh /\ [][Refresh]_vars

\* The previous entry's contacts among its first `count` with the id `id`.
Matches(entry, id) == {j \in 1..entry.count : entry.contacts[j].id = id}

\* C4: every contact of a refreshed manifold has the scalars of the previous
\* entry's first contact of the same id among its first `count` contacts, and
\* zero scalars when there is none; without a previous entry every contact
\* has zero scalars.
C4_ScalarsCarriedById ==
    tr.done =>
        \A i \in 1..tr.collision.count :
            LET c == tr.value.contacts[i]
                M == IF tr.entry = NoEntry THEN {}
                     ELSE Matches(tr.entry, tr.collision.contacts[i].id)
            IN  IF M = {}
                THEN c.normalScalar = 0 /\ c.tangentScalar = 0
                ELSE LET k == CHOOSE j \in M : \A l \in M : j <= l
                     IN  /\ c.normalScalar = tr.entry.contacts[k].normalScalar
                         /\ c.tangentScalar = tr.entry.contacts[k].tangentScalar

\* Of two fresh contacts one took nonzero scalars from the previous entry's
\* second contact, the other found no contact of its id.
C4_Witness ==
    /\ tr.done /\ tr.entry # NoEntry
    /\ tr.entry.count = 2 /\ tr.collision.count = 2
    /\ tr.collision.contacts[1].id = tr.entry.contacts[2].id
    /\ tr.collision.contacts[1].id # tr.entry.contacts[1].id
    /\ tr.value.contacts[1].normalScalar = 5
    /\ tr.value.contacts[1].tangentScalar = -3
    /\ Matches(tr.entry, tr.collision.contacts[2].id) = {}
    /\ tr.value.contacts[2].normalScalar = 0

(***************************************************************************)
(* One cache entry and the two bodies of its key through the loops of       *)
(* prStepWorld that follow the pre-step.                                    *)
(***************************************************************************)

PairTypes == {"STATIC", "KINEMATIC", "DYNAMIC"}
PairVelocities == {-2, 0, 3}

\* The manifold of the two overlapping circles at 0 and 1 as the pre-step
\* leaves it: the narrow phase's result with the material of a new entry, or
\* with scalars carried over from the entry of the step before.
PairManifolds ==
    LET collision == prComputeCollision(ShapeOf(1), 0, ShapeOf(2), 1,
                                        ZeroCollision).collision
        fresh == RefreshCollision(NoEntry, collision, ShapeOf(1), ShapeOf(2))
    IN  {[fresh EXCEPT !.contacts[1].normalScalar = n,
                       !.contacts[2].normalScalar = n,
                       !.count = k] : n \in {0, 4}, k \in 1..2}

\* Two bodies made at 0 and 1, each with a velocity set by prSetBodyVelocity,
\* and the entry of their pair; the step is at its preStep callbacks.
InitPair ==
    /\ InitWorld /\ hq = NoQuery /\ tr = NoRefresh
    /\ mt = NoMaterials /\ rb = NoBody /\ pg = NoPolygon /\ np = NoManifold
    /\ rc = NoRay /\ shapesFreed = {}
    /\ \E t1, t2 \in PairTypes, v1, v2 \in PairVelocities, ctx \in PairManifolds :
          rs = [pc |-> "preStep",
                bs |-> [b \in 1..2 |->
                          prSetBodyVelocity(
                              prCreateBodyFromShape(IF b = 1 THEN t1 ELSE t2,
                                                    b - 1, b),
                              IF b = 1 THEN v1 ELSE v2)],
                cache |-> <<[key |-> <<1, 2>>, value |-> ctx]>>,
                emptied |-> FALSE,
                seen |-> NoEntry]

PairUnchanged ==
    UNCHANGED <<worldVars, ctlVars, clock, histVars, hq, tr, mt, rb, pg, np, rc,
                 shapesFreed>>

\* `w->handler.preStep(w->cache[i].key, &w->cache[i].value)`: the callback
\* leaves the manifold alone or sets its count to 0.
PairPreStep(empty) ==
    /\ rs.pc = "preStep"
    /\ rs' = [rs EXCEPT !.pc = "velocity",
                        !.emptied = empty,
                        !.cache[1].value.count = IF empty THEN 0 ELSE @]
    /\ PairUnchanged

PairIntegrateVelocities ==
    /\ rs.pc = "velocity"
    /\ rs' = [rs EXCEPT !.pc = "warmStart",
                        !.bs = ForEachBody("velocity", <<1, 2>>, rs.bs, 1,
                                           WorldGravity[1], 1)]
    /\ PairUnchanged

PairWarmStart ==
    /\ rs.pc = "warmStart"
    /\ rs' = [rs EXCEPT !.pc = "solve",
                        !.bs = ForEachEntry("warmStart", rs.bs, rs.cache, 1, 0).bs]
    /\ PairUnchanged

PairSolve ==
    /\ rs.pc = "solve"
    /\ LET r == SolverIterations([bs |-> rs.bs, cache |-> rs.cache,
                                  events |-> <<>>], 0, InverseDt(1))
       IN  rs' = [rs EXCEPT !.pc = "postStep", !.bs = r.bs, !.cache = r.cache]
    /\ PairUnchanged

\* `w->handler.postStep(w->cache[i].key, &w->cache[i].value)`
PairPostStep ==
    /\ rs.pc = "postStep"
    /\ rs' = [rs EXCEPT !.pc = "done", !.seen = rs.cache[1].value]
    /\ PairUnchanged

NextPair ==
    \/ \E empty \in BOOLEAN : PairPreStep(empty)
    \/ PairIntegrateVelocities
    \/ PairWarmStart
    \/ PairSolve
    \/ PairPostStep

SpecPair == InitPair /\ [][NextPair]_vars

\* C12: once a preStep callback has set the count of a manifold to 0, the
\* warm start and the 12 solver passes of that step apply no impulse for it:
\* they leave the velocity of both bodies as it is, but for the resolver's
\* reset of a static body in a pair of two infinite masses, which does not
\* read the manifold; the manifold stays empty, and the postStep callback is
\* called with the entry.
C12_EmptiedManifoldIsInert ==
    [][/\ rs.pc \in {"warmStart", "solve"} /\ rs.emptied =>
             /\ rs'.cache = rs.cache
             /\ \A b \in 1..2 :
                   rs'.bs[b] =
                      IF /\ rs.pc = "solve"
                         /\ rs.bs[1].inverseMass + rs.bs[2].inverseMass <= 0
                         /\ rs.bs[b].type = "STATIC"
                      THEN [rs.bs[b] EXCEPT !.velocity = 0]
                      ELSE rs.bs[b]
       /\ rs.pc = "postStep" =>
             rs'.seen = rs.cache[1].value
      ]_vars

\* The step is over for a dynamic and a static body that approach each
\* other: the callback emptied their manifold, whose contacts hold an impulse
\* of the step before, and the postStep callback saw the empty manifold.
C12_Witness ==
    /\ rs.pc = "done" /\ rs.emptied
    /\ rs.bs[1].type = "DYNAMIC" /\ rs.bs[2].type = "STATIC"
    /\ rs.bs[1].velocity > 0
    /\ rs.cache[1].value.contacts[1].normalScalar # 0
    /\ rs.seen # NoEntry /\ rs.seen.count = 0

(***************************************************************************)
(* The material of a cache entry: two shapes whose materials the user may   *)
(* change between steps, and the entry of their pair as the pre-step        *)
(* callback of each step refreshes or evicts it.  The repository holds two  *)
(* revisions of the callback (world.c and its later copy); a run is of one  *)
(* of them.                                                                 *)
(***************************************************************************)

MaxMaterialOps == 4

Frictions == {-2, 0, 2, 4}
Restitutions == {-1, 0, 1}
Revisions == {"world.c", "part_008"}

\* The callback of the older revision for a colliding pair: the friction of
\* a new entry is the product of the two frictions, and a contact without a
\* match keeps the scalars of the fresh collision.
RefreshCollisionOlder(entry, collision, s1, s2) ==
    IF entry # NoEntry
    THEN [collision EXCEPT
            !.friction = entry.friction,
            !.restitution = entry.restitution,
            !.contacts = [i \in 1..2 |->
                            IF /\ i <= collision.count
                               /\ FindContact(entry, collision.contacts[i].id) >= 0
                            THEN CarryContact(entry, collision.contacts[i])
                            ELSE collision.contacts[i]]]
    ELSE LET f == prGetShapeFriction(s1) * prGetShapeFriction(s2)
             r == Min(prGetShapeRestitution(s1), prGetShapeRestitution(s2))
         IN  [collision EXCEPT !.friction = IF f <= 0 THEN 0 ELSE f,
                               !.restitution = IF r <= 0 THEN 0 ELSE r]

\* prCreateCircle(material, 1) for both shapes, no entry yet.
InitMaterial ==
    /\ InitWorld /\ hq = NoQuery /\ tr = NoRefresh
    /\ rb = NoBody /\ pg = NoPolygon /\ np = NoManifold /\ rs = NoPair
    /\ rc = NoRay /\ shapesFreed = {}
    /\ \E rev \in Revisions, f1, f2 \in Frictions, r1, r2 \in Restitutions :
          mt = [revision |-> rev,
                shapes |-> <<[ShapeOf(1) EXCEPT !.friction = f1, !.restitution = r1],
                             [ShapeOf(2) EXCEPT !.friction = f2, !.restitution = r2]>>,
                entry |-> NoEntry,
                n |-> 0]

MaterialUnchanged ==
    UNCHANGED <<worldVars, ctlVars, clock, histVars, hq, tr, rb, pg, np, rs, rc,
                 shapesFreed>>

\* prSetShapeMaterial on one of the two shapes.
SetShapeMaterial(i, friction, restitution) ==
    /\ mt.n < MaxMaterialOps
    /\ mt' = [mt EXCEPT !.n = @ + 1,
                        !.shapes[i].friction = friction,
                        !.shapes[i].restitution = restitution]
    /\ MaterialUnchanged

\* The callback for the pair in the pre-step of one step: the narrow phase
\* reports the pair colliding or not.
PreStepPair(colliding) ==
    /\ mt.n < MaxMaterialOps
    /\ LET collision == prComputeCollision(mt.shapes[1], 0, mt.shapes[2], 1,
                                           ZeroCollision).collision
       IN  mt' = [mt EXCEPT
                    !.n = @ + 1,
                    !.entry =
                       IF ~colliding THEN NoEntry
                       ELSE IF mt.revision = "world.c"
                       THEN RefreshCollisionOlder(mt.entry, collision,
                                                  mt.shapes[1], mt.shapes[2])
                       ELSE RefreshCollision(mt.entry, collision,
                                             mt.shapes[1], mt.shapes[2])]
    /\ MaterialUnchanged

NextMaterial ==
    \/ \E i \in 1..2, f \in Frictions, r \in Restitutions :
          SetShapeMaterial(i, f, r)
    \/ \E colliding \in BOOLEAN : PreStepPair(colliding)

SpecMaterial == InitMaterial /\ [][NextMaterial]_vars

\* C13: an entry made for a pair has the arithmetic mean of the two shapes'
\* frictions and the smaller of their restitutions, each replaced by 0 when
\* negative; a refresh of an entry keeps its friction and restitution,
\* whatever the shapes' materials are by then.
C13_MaterialOfEntry ==
    [][mt'.entry # NoEntry =>
         IF mt.entry = NoEntry
         THEN /\ 2 * mt'.entry.friction =
                   Max(0, mt.shapes[1].friction + mt.shapes[2].friction)
              /\ mt'.entry.restitution =
                   Max(0, Min(mt.shapes[1].restitution, mt.shapes[2].restitution))
         ELSE /\ mt'.entry.friction = mt.entry.friction
              /\ mt'.entry.restitution = mt.entry.restitution
      ]_vars

(***************************************************************************)
(* One rigid body in full (rigid-body.c) with one circle (geometry.c).      *)
(* A float is a rational <<numerator, denominator>> in lowest terms with a  *)
(* positive denominator, a prVector2 a pair <<x, y>> of them.               *)
(***************************************************************************)

RECURSIVE GCD(_, _)
GCD(a, b) == IF b = 0 THEN a ELSE GCD(b, a % b)

Rat(n, d) ==
    LET g == GCD(Abs(n), Abs(d))
        sign == IF d < 0 THEN -1 ELSE 1
    IN  <<(sign * n) \div g, (sign * d) \div g>>

Whole(k) == <<k, 1>>
RatAdd(a, b) == Rat(a[1] * b[2] + b[1] * a[2], a[2] * b[2])
RatMul(a, b) == Rat(a[1] * b[1], a[2] * b[2])
RatNeg(a) == <<0 - a[1], a[2]>>
\* `1.0f / a` for a # 0.
RatInv(a) == Rat(a[2], a[1])
\* floorf
RatFloor(a) == Whole(a[1] \div a[2])

ZeroVector == <<Whole(0), Whole(0)>>
Vector(x, y) == <<Whole(x), Whole(y)>>
prVector2Add(v1, v2) == <<RatAdd(v1[1], v2[1]), RatAdd(v1[2], v2[2])>>
prVector2ScalarMultiply(v, value) == <<RatMul(v[1], value), RatMul(v[2], value)>>
prVector2Cross(v1, v2) ==
    RatAdd(RatMul(v1[1], v2[2]), RatNeg(RatMul(v1[2], v2[1])))

\* M_PI as a float is a rational near pi; 22/7 stands for it.
Pi == <<22, 7>>

PR_FLAG_INFINITE_MASS == 1
PR_FLAG_INFINITE_INERTIA == 2

\* `flags & flag` is not 0, for a flag of one bit.
HasFlag(flags, flag) == (flags \div flag) % 2 = 1

\* The shape a NULL pointer stands for.
NoShape == [type |-> "NULL"]

ZeroAABB == [x |-> Whole(0), y |-> Whole(0), width |-> Whole(0), height |-> Whole(0)]

\* prSetCircleRadius on a circle: the radius and the area.
SetCircleRadius(s, radius) ==
    IF s = NoShape \/ s.type # "CIRCLE" THEN s
    ELSE [s EXCEPT !.radius = radius,
                   !.area = RatMul(Pi, RatMul(radius, radius))]

\* prCreateCircle: NULL for a radius that is not positive; any material.
CreateCircle(density, radius) ==
    IF radius[1] <= 0 THEN NoShape
    ELSE SetCircleRadius([type |-> "CIRCLE", density |-> density,
                          radius |-> Whole(0), area |-> Whole(0)], radius)

\* prGetShapeMass, for the shape s or NoShape.
ShapeMass(s) == IF s # NoShape THEN RatMul(s.density, s.area) ELSE Whole(0)

\* prGetShapeInertia, for a circle or NULL.
ShapeInertia(s) ==
    IF s = NoShape THEN Whole(0)
    ELSE IF s.density[1] <= 0 THEN Whole(0)
    ELSE RatMul(<<1, 2>>, RatMul(ShapeMass(s), RatMul(s.radius, s.radius)))

\* prGetShapeAABB, for a circle or NULL at the position of the transform.
ShapeAABB(s, position) ==
    IF s = NoShape THEN ZeroAABB
    ELSE [x |-> RatAdd(position[1], RatNeg(s.radius)),
          y |-> RatAdd(position[2], RatNeg(s.radius)),
          width |-> RatMul(Whole(2), s.radius),
          height |-> RatMul(Whole(2), s.radius)]

\* prComputeBodyMass; s is the shape b->shape points to, or NULL.
ComputeBodyMass(bd, s) ==
    LET zero == [bd EXCEPT !.mass = Whole(0), !.inverseMass = Whole(0),
                           !.inertia = Whole(0), !.inverseInertia = Whole(0)]
        m == ShapeMass(s)
        i == ShapeInertia(s)
        massed == IF HasFlag(bd.flags, PR_FLAG_INFINITE_MASS) THEN zero
                  ELSE [zero EXCEPT
                          !.mass = m,
                          !.inverseMass = IF m[1] > 0 THEN RatInv(m) ELSE Whole(0)]
    IN  CASE bd.type = "STATIC" ->
               [zero EXCEPT !.velocity = ZeroVector, !.angularVelocity = Whole(0)]
          [] bd.type = "DYNAMIC" ->
               IF HasFlag(bd.flags, PR_FLAG_INFINITE_INERTIA) THEN massed
               ELSE [massed EXCEPT
                       !.inertia = i,
                       !.inverseInertia = IF i[1] > 0 THEN RatInv(i) ELSE Whole(0)]
          [] OTHER -> zero

\* prNormalizeAngle: angle - TWO_PI * floorf(angle * INVERSE_TWO_PI).
prNormalizeAngle(angle) ==
    LET twoPi == RatMul(Whole(2), Pi)
    IN  RatAdd(angle, RatNeg(RatMul(twoPi, RatFloor(RatMul(angle, RatInv(twoPi))))))

\* prCreateBody: calloc, the type, the position, a gravity scale of 1.
CreateBody(type, position) ==
    [type |-> type, flags |-> 0, shape |-> NULL,
     position |-> position, angle |-> Whole(0),
     mass |-> Whole(0), inverseMass |-> Whole(0),
     inertia |-> Whole(0), inverseInertia |-> Whole(0),
     gravityScale |-> Whole(1),
     velocity |-> ZeroVector, angularVelocity |-> Whole(0),
     force |-> ZeroVector, torque |-> Whole(0),
     aabb |-> ZeroAABB]

\* The calls on a body; `s` is the shape object a shape pointer leads to.
BodySetType(bd, s, type) == ComputeBodyMass([bd EXCEPT !.type = type], s)
BodySetFlags(bd, s, flags) == ComputeBodyMass([bd EXCEPT !.flags = flags], s)
BodySetShape(bd, ptr, s) ==
    ComputeBodyMass([bd EXCEPT !.shape = ptr,
                               !.aabb = IF ptr # NULL
                                        THEN ShapeAABB(s, bd.position)
                                        ELSE ZeroAABB], s)
BodySetPosition(bd, s, position) ==
    [bd EXCEPT !.position = position, !.aabb = ShapeAABB(s, position)]
BodySetAngle(bd, s, angle) ==
    [bd EXCEPT !.angle = prNormalizeAngle(angle),
               !.aabb = ShapeAABB(s, bd.position)]
BodySetVelocity(bd, velocity) == [bd EXCEPT !.velocity = velocity]
BodySetAngularVelocity(bd, angularVelocity) ==
    [bd EXCEPT !.angularVelocity = angularVelocity]
BodyClearForces(bd) == [bd EXCEPT !.force = ZeroVector, !.torque = Whole(0)]

BodyApplyForce(bd, point, force) ==
    IF bd.inverseMass[1] <= 0 THEN bd
    ELSE [bd EXCEPT !.force = prVector2Add(@, force),
                    !.torque = RatAdd(@, prVector2Cross(point, force))]

BodyApplyGravity(bd, g) ==
    IF bd.mass[1] <= 0 THEN bd
    ELSE [bd EXCEPT !.force =
            prVector2Add(@, prVector2ScalarMultiply(
                                g, RatMul(bd.gravityScale, bd.mass)))]

\* An impulse that moves a body whatever its inverse mass is.
MutBodyApplyImpulse(bd, point, impulse) ==
    [bd EXCEPT !.velocity = prVector2Add(@, impulse),
               !.angularVelocity = RatAdd(@, prVector2Cross(point, impulse))]

BodyApplyImpulse(bd, point, impulse) ==
    IF bd.inverseMass[1] <= 0 THEN bd
    ELSE [bd EXCEPT
            !.velocity =
               prVector2Add(@, prVector2ScalarMultiply(impulse, bd.inverseMass)),
            !.angularVelocity =
               RatAdd(@, RatMul(bd.inverseInertia, prVector2Cross(point, impulse)))]

BodyIntegrateVelocity(bd, dt) ==
    IF bd.inverseMass[1] <= 0 \/ dt[1] <= 0 THEN bd
    ELSE [bd EXCEPT
            !.velocity =
               prVector2Add(@, prVector2ScalarMultiply(
                                   bd.force, RatMul(bd.inverseMass, dt))),
            !.angularVelocity =
               RatAdd(@, RatMul(RatMul(bd.torque, bd.inverseInertia), dt))]

BodyIntegratePosition(bd, s, dt) ==
    IF bd.type = "STATIC" \/ dt[1] <= 0 THEN bd
    ELSE LET moved == [bd EXCEPT !.position =
                         prVector2Add(@, prVector2ScalarMultiply(bd.velocity, dt))]
             turned == BodySetAngle(moved, s,
                          RatAdd(bd.angle, RatMul(bd.angularVelocity, dt)))
         IN  [turned EXCEPT !.aabb = ShapeAABB(s, turned.position)]

MaxBodyOps == 3

Flags == 0..3
Densities == {Whole(-1), Whole(0), Whole(1)}
TimeSteps == {Whole(0), Whole(1)}
StepGravity == Vector(0, -1)
SomePoint == Vector(0, 1)
SomeVector == Vector(2, 0)

\* What the cache entries of a step do to one body: the warm start and the
\* resolver hand it impulses through prApplyImpulseToBody (k of them here),
\* and the resolver resets a static body of a pair of two infinite masses.
RECURSIVE ApplyImpulses(_, _)
ApplyImpulses(bd, k) ==
    IF k = 0 THEN bd
    ELSE ApplyImpulses(BodyApplyImpulse(bd, SomePoint, SomeVector), k - 1)

ResetStatic(bd, reset) ==
    IF reset /\ bd.type = "STATIC"
    THEN [bd EXCEPT !.velocity = ZeroVector, !.angularVelocity = Whole(0)]
    ELSE bd

\* prStepWorld for one body of the world.
BodyStep(bd, s, dt, k, reset) ==
    IF dt[1] <= 0 THEN bd
    ELSE LET integrated == BodyIntegrateVelocity(BodyApplyGravity(bd, StepGravity), dt)
             resolved == ResetStatic(ApplyImpulses(integrated, k), reset)
         IN  BodyClearForces(BodyIntegratePosition(resolved, s, dt))

\* The shape the body's pointer leads to.
ShapeOfBody == IF rb.body.shape = NULL THEN NoShape ELSE rb.shape

\* prCreateCircle(material, 1) and prCreateBody or prCreateBodyFromShape at
\* the origin.
InitBody ==
    /\ InitWorld /\ hq = NoQuery /\ tr = NoRefresh
    /\ mt = NoMaterials /\ pg = NoPolygon /\ np = NoManifold /\ rs = NoPair
    /\ rc = NoRay /\ shapesFreed = {}
    /\ \E type \in PairTypes, density \in Densities, attach \in BOOLEAN :
          LET s == CreateCircle(density, Whole(1))
              bd == CreateBody(type, ZeroVector)
          IN  rb = [op |-> "create", n |-> 0, dt |-> Whole(0), shape |-> s,
                    body |-> IF attach THEN BodySetShape(bd, 1, s) ELSE bd]

\* A call on the body or on the shape: the history of it and its effect.
BodyCall(op, dt, bd, s) ==
    /\ rb.n < MaxBodyOps
    /\ rb' = [op |-> op, n |-> rb.n + 1, dt |-> dt, shape |-> s, body |-> bd]
    /\ UNCHANGED <<worldVars, ctlVars, clock, histVars, hq, tr, mt, pg, np, rs, rc,
                 shapesFreed>>

RbSetBodyType(type) ==
    BodyCall("prSetBodyType", Whole(0), BodySetType(rb.body, ShapeOfBody, type), rb.shape)
RbSetBodyFlags(flags) ==
    BodyCall("prSetBodyFlags", Whole(0), BodySetFlags(rb.body, ShapeOfBody, flags),
             rb.shape)
RbSetBodyShape(ptr) ==
    BodyCall("prSetBodyShape", Whole(0),
             BodySetShape(rb.body, ptr, IF ptr = NULL THEN NoShape ELSE rb.shape),
             rb.shape)
RbSetBodyPosition ==
    BodyCall("prSetBodyPosition", Whole(0),
             BodySetPosition(rb.body, ShapeOfBody, Vector(3, 1)), rb.shape)
RbSetBodyAngle ==
    BodyCall("prSetBodyAngle", Whole(0),
             BodySetAngle(rb.body, ShapeOfBody, Whole(7)), rb.shape)
RbSetBodyVelocity ==
    BodyCall("prSetBodyVelocity", Whole(0),
             BodySetVelocity(rb.body, Vector(2, -1)), rb.shape)
RbSetBodyAngularVelocity ==
    BodyCall("prSetBodyAngularVelocity", Whole(0),
             BodySetAngularVelocity(rb.body, Whole(1)), rb.shape)
RbApplyForceToBody ==
    BodyCall("prApplyForceToBody", Whole(0),
             BodyApplyForce(rb.body, SomePoint, SomeVector), rb.shape)
RbApplyGravityToBody ==
    BodyCall("prApplyGravityToBody", Whole(0),
             BodyApplyGravity(rb.body, StepGravity), rb.shape)
RbApplyImpulseToBody ==
    BodyCall("prApplyImpulseToBody", Whole(0),
             BodyApplyImpulse(rb.body, SomePoint, SomeVector), rb.shape)
RbSetCircleRadius ==
    BodyCall("prSetCircleRadius", Whole(0), rb.body,
             SetCircleRadius(rb.shape, Whole(2)))
RbStepWorld(dt, k, reset) ==
    BodyCall("prStepWorld", dt, BodyStep(rb.body, ShapeOfBody, dt, k, reset),
             rb.shape)

NextBody ==
    \/ \E type \in PairTypes : RbSetBodyType(type)
    \/ \E flags \in Flags : RbSetBodyFlags(flags)
    \/ \E ptr \in {NULL, 1} : RbSetBodyShape(ptr)
    \/ RbSetBodyPosition
    \/ RbSetBodyAngle
    \/ RbSetBodyVelocity
    \/ RbSetBodyAngularVelocity
    \/ RbApplyForceToBody
    \/ RbApplyGravityToBody
    \/ RbApplyImpulseToBody
    \/ RbSetCircleRadius
    \/ \E dt \in TimeSteps, k \in 0..1, reset \in BOOLEAN : RbStepWorld(dt, k, reset)

SpecBody == InitBody /\ [][NextBody]_vars

\* C14: a body whose type is STATIC has zero linear velocity and zero angular
\* velocity.
C14_StaticBodyAtRest ==
    rb.body.type = "STATIC" =>
        rb.body.velocity = ZeroVector /\ rb.body.angularVelocity = Whole(0)

\* The calls that are no user setter of a velocity or of the type.
ForcesAndSteps ==
    {"prApplyForceToBody", "prApplyGravityToBody", "prApplyImpulseToBody",
     "prStepWorld"}

\* C15: a KINEMATIC body has inverseMass = 0 and inverseInertia = 0;
\* prApplyForceToBody, prApplyGravityToBody, prApplyImpulseToBody and
\* prStepWorld leave its linear and angular velocity as they are, and a step
\* of dt > 0 moves its position by velocity * dt.
C15_KinematicBody ==
    [][/\ rb'.body.type = "KINEMATIC" =>
             rb'.body.inverseMass = Whole(0) /\ rb'.body.inverseInertia = Whole(0)
       /\ rb.body.type = "KINEMATIC" /\ rb'.op \in ForcesAndSteps =>
             /\ rb'.body.type = "KINEMATIC"
             /\ rb'.body.velocity = rb.body.velocity
             /\ rb'.body.angularVelocity = rb.body.angularVelocity
       /\ rb.body.type = "KINEMATIC" /\ rb'.op = "prStepWorld" =>
             rb'.body.position =
                IF rb'.dt[1] > 0
                THEN prVector2Add(rb.body.position,
                                  prVector2ScalarMultiply(rb.body.velocity, rb'.dt))
                ELSE rb.body.position
      ]_vars

\* A kinematic body with a shape of positive mass, given a velocity by
\* prSetBodyVelocity, has been through a step of dt = 1 and has moved by it.
C15_Witness ==
    /\ rb.op = "prStepWorld" /\ rb.dt = Whole(1)
    /\ rb.body.type = "KINEMATIC"
    /\ rb.body.shape # NULL /\ ShapeMass(rb.shape)[1] > 0
    /\ rb.body.velocity = Vector(2, -1)
    /\ rb.body.position = Vector(2, -1)

\* C16: the stored AABB of a body is prGetShapeAABB of its current shape at
\* its current transform, the zero AABB when it has no shape.
C16_StoredAABB ==
    rb.op # "none" => rb.body.aabb = ShapeAABB(ShapeOfBody, rb.body.position)

\* C17: after prSetBodyType, prSetBodyFlags or prSetBodyShape the inverse
\* mass is 0 exactly when the mass is 0, the inverse inertia is 0 exactly when
\* the inertia is 0, a non-zero inverse is the reciprocal of its field, and a
\* static body, a kinematic body and a dynamic body with the infinite flag
\* have the field and its inverse 0.
C17_InverseFields ==
    rb.op \in {"prSetBodyType", "prSetBodyFlags", "prSetBodyShape"} =>
        /\ rb.body.inverseMass = Whole(0) <=> rb.body.mass = Whole(0)
        /\ rb.body.inverseInertia = Whole(0) <=> rb.body.inertia = Whole(0)
        /\ rb.body.inverseMass # Whole(0) =>
              RatMul(rb.body.mass, rb.body.inverseMass) = Whole(1)
        /\ rb.body.inverseInertia # Whole(0) =>
              RatMul(rb.body.inertia, rb.body.inverseInertia) = Whole(1)
        /\ rb.body.type # "DYNAMIC" \/ HasFlag(rb.body.flags, PR_FLAG_INFINITE_MASS) =>
              rb.body.mass = Whole(0) /\ rb.body.inverseMass = Whole(0)
        /\ rb.body.type # "DYNAMIC" \/ HasFlag(rb.body.flags, PR_FLAG_INFINITE_INERTIA) =>
              rb.body.inertia = Whole(0) /\ rb.body.inverseInertia = Whole(0)

(***************************************************************************)
(* Convex polygons (geometry.c): prCreatePolygon on a list of points with   *)
(* whole coordinates.                                                       *)
(***************************************************************************)

PR_GEOMETRY_MAX_VERTEX_COUNT == 8

MaxPoints == 4
GridSize == 2

Points == (0..GridSize) \X (0..GridSize)

\* The sign of (v2.y - v1.y) * (v3.x - v1.x) - (v3.y - v1.y) * (v2.x - v1.x).
prVector2CounterClockwise(v1, v2, v3) ==
    LET lhs == (v2[2] - v1[2]) * (v3[1] - v1[1])
        rhs == (v3[2] - v1[2]) * (v2[1] - v1[1])
    IN  (IF lhs > rhs THEN 1 ELSE 0) - (IF lhs < rhs THEN 1 ELSE 0)

prVector2DistanceSqr(v1, v2) ==
    (v2[1] - v1[1]) * (v2[1] - v1[1]) + (v2[2] - v1[2]) * (v2[2] - v1[2])

\* The first loop of prJarvisMarch: the first index with the least x.
RECURSIVE LowestIndex(_, _, _)
LowestIndex(data, lowestIndex, i) ==
    IF i > Len(data) THEN lowestIndex
    ELSE LowestIndex(data,
                     IF data[lowestIndex][1] > data[i][1] THEN i ELSE lowestIndex,
                     i + 1)

\* The body of the candidate loop: whether candidate i replaces nextIndex.
\* Both distances are taken from currentIndex to nextIndex.
TakesCandidate(data, currentIndex, nextIndex, i) ==
    LET direction == prVector2CounterClockwise(data[currentIndex], data[i],
                                               data[nextIndex])
        toCandidate == prVector2DistanceSqr(data[currentIndex], data[nextIndex])
        toNext == prVector2DistanceSqr(data[currentIndex], data[nextIndex])
    IN  /\ ~(direction < 0)
        /\ direction # 0 \/ (direction = 0 /\ toCandidate > toNext)

\* The candidate loop from index i on.
RECURSIVE NextIndex(_, _, _, _)
NextIndex(data, currentIndex, nextIndex, i) ==
    IF i > Len(data) THEN nextIndex
    ELSE IF i = currentIndex \/ i = nextIndex
    THEN NextIndex(data, currentIndex, nextIndex, i + 1)
    ELSE NextIndex(data, currentIndex,
                   IF TakesCandidate(data, currentIndex, nextIndex, i)
                   THEN i ELSE nextIndex,
                   i + 1)

\* The `for (;;)` loop.  A write past output->data[7] is a write outside the
\* array: the march is cut there and marked.
RECURSIVE March(_, _, _, _)
March(data, lowestIndex, currentIndex, output) ==
    LET first == IF currentIndex = 1 THEN 2 ELSE 1
        nextIndex == NextIndex(data, currentIndex, first, 1)
    IN  IF nextIndex = lowestIndex THEN [data |-> output, overrun |-> FALSE]
        ELSE IF Len(output) >= PR_GEOMETRY_MAX_VERTEX_COUNT
        THEN [data |-> output, overrun |-> TRUE]
        ELSE March(data, lowestIndex, nextIndex, Append(output, data[nextIndex]))

\* prJarvisMarch into an output of count 0.
prJarvisMarch(data) ==
    IF Len(data) < 3 THEN [data |-> <<>>, overrun |-> FALSE]
    ELSE LET lowestIndex == LowestIndex(data, 1, 2)
         IN  March(data, lowestIndex, lowestIndex, <<data[lowestIndex]>>)

\* The sum of the triangle fan of the area loop, from vertex i on.
RECURSIVE TwiceAreaSum(_, _)
TwiceAreaSum(v, i) ==
    IF i > Len(v) - 1 THEN 0
    ELSE (v[i][1] - v[1][1]) * (v[i + 1][2] - v[1][2])
           - (v[i][2] - v[1][2]) * (v[i + 1][1] - v[1][1])
         + TwiceAreaSum(v, i + 1)

\* prSetPolygonVertices on a shape s; `count` is vertices->count.
prSetPolygonVertices(s, data, count) ==
    IF count <= 0 THEN s
    ELSE LET hull == prJarvisMarch(data)
         IN  [s EXCEPT !.vertices = hull.data,
                       !.normals = Len(hull.data),
                       !.overrun = hull.overrun,
                       !.twiceArea = Abs(TwiceAreaSum(hull.data, 1))]

NullShape == [null |-> TRUE, vertices |-> <<>>, normals |-> 0,
              overrun |-> FALSE, twiceArea |-> 0]

\* prCreatePolygon; `null` says that the list pointer is NULL.
prCreatePolygon(null, data, count) ==
    IF null \/ count <= 0 THEN NullShape
    ELSE prSetPolygonVertices([NullShape EXCEPT !.null = FALSE], data, count)

\* The lists of points a caller passes: NULL, a list whose count is 0 or
\* negative, or 1 to MaxPoints points of the grid.
PointLists ==
    {[null |-> TRUE, data |-> <<>>, count |-> 0]}
    \cup {[null |-> FALSE, data |-> <<>>, count |-> c] : c \in {-1, 0}}
    \cup UNION {{[null |-> FALSE, data |-> d, count |-> n] :
                   d \in [1..n -> Points]} : n \in 1..MaxPoints}

InitPolygon ==
    /\ InitWorld /\ hq = NoQuery /\ tr = NoRefresh
    /\ mt = NoMaterials /\ rb = NoBody /\ np = NoManifold /\ rs = NoPair
    /\ rc = NoRay /\ shapesFreed = {}
    /\ \E input \in PointLists :
          pg = [done |-> FALSE, input |-> input, shape |-> NullShape]

CreatePolygon ==
    /\ ~pg.done
    /\ pg' = [pg EXCEPT !.done = TRUE,
                        !.shape = prCreatePolygon(pg.input.null, pg.input.data,
                                                  pg.input.count)]
    /\ UNCHANGED <<worldVars, ctlVars, clock, histVars, hq, tr, mt, rb, np, rs, rc,
                 shapesFreed>>

SpecPolygon == InitPolygon /\ [][CreatePolygon]_vars

\* C18: prCreatePolygon returns NULL for a list of fewer than 3 points: for
\* a NULL list, for a count of 0 or less, and for 1 or 2 points.
C18_FewerThanThreePoints ==
    pg.done /\ (pg.input.null \/ pg.input.count < 3) => pg.shape.null

\* Twice the signed area of the triangle a, b, c.
Turn(a, b, c) ==
    (b[1] - a[1]) * (c[2] - a[2]) - (b[2] - a[2]) * (c[1] - a[1])

\* p lies on the segment from a to b.
OnSegment(p, a, b) ==
    /\ Turn(a, b, p) = 0
    /\ Min(a[1], b[1]) <= p[1] /\ p[1] <= Max(a[1], b[1])
    /\ Min(a[2], b[2]) <= p[2] /\ p[2] <= Max(a[2], b[2])

\* p lies in the triangle a, b, c, its edges included.
InTriangle(p, a, b, c) ==
    /\ Turn(a, b, c) # 0
    /\ LET t1 == Turn(a, b, p)
           t2 == Turn(b, c, p)
           t3 == Turn(c, a, p)
       IN  \/ t1 >= 0 /\ t2 >= 0 /\ t3 >= 0
           \/ t1 <= 0 /\ t2 <= 0 /\ t3 <= 0

\* The extreme points of the convex hull of the point set S.
ExtremePoints(S) ==
    {p \in S :
        /\ \A a, b \in S \ {p} : ~OnSegment(p, a, b)
        /\ \A a, b, c \in S \ {p} : ~InTriangle(p, a, b, c)}

AllCollinear(S) == \A a, b, c \in S : Turn(a, b, c) = 0

\* C19: of 3 or more points that are not all collinear the shape holds
\* exactly the extreme points of their convex hull, each once, in one
\* winding with a strict turn at every vertex, at least 3 of them, and as
\* many normals as vertices.
C19_ConvexHull ==
    pg.done /\ ~pg.input.null /\ pg.input.count >= 3
            /\ ~AllCollinear(Range(pg.input.data)) =>
        LET v == pg.shape.vertices
            n == Len(v)
            succ(i) == (i % n) + 1
        IN  /\ ~pg.shape.null /\ ~pg.shape.overrun
            /\ n >= 3
            /\ pg.shape.normals = n
            /\ Range(v) = ExtremePoints(Range(pg.input.data))
            /\ \A i, j \in 1..n : i # j => v[i] # v[j]
            /\ \/ \A i \in 1..n : Turn(v[i], v[succ(i)], v[succ(succ(i))]) > 0
               \/ \A i \in 1..n : Turn(v[i], v[succ(i)], v[succ(succ(i))]) < 0

(***************************************************************************)
(* The narrow phase (collision.c) for circles and rectangles at whole       *)
(* coordinates, transforms turned by quarter turns, whose sine and cosine   *)
(* are whole.  A direction is the vector (x, y) / sqrt(over): the code      *)
(* divides by the magnitude, whose square is kept here.                     *)
(***************************************************************************)

Reach == 3

Minus(v1, v2) == <<v1[1] - v2[1], v1[2] - v2[2]>>
Plus(v1, v2) == <<v1[1] + v2[1], v1[2] + v2[2]>>
Dot(v1, v2) == v1[1] * v2[1] + v1[2] * v2[2]
Negate(v) == <<0 - v[1], 0 - v[2]>>
MagnitudeSqr(v) == Dot(v, v)

\* prVector2Normalize of a vector along an axis, as the edges of a rectangle
\* are: its magnitude is |x| + |y|.
Normalize(v) ==
    IF Abs(v[1]) + Abs(v[2]) > 0
    THEN <<v[1] \div (Abs(v[1]) + Abs(v[2])), v[2] \div (Abs(v[1]) + Abs(v[2]))>>
    ELSE v
LeftNormal(v) == Normalize(<<0 - v[2], v[1]>>)
RightNormal(v) == Normalize(<<v[2], 0 - v[1]>>)

Unit(v) == [x |-> v[1], y |-> v[2], over |-> 1]
Opposite(d) == [d EXCEPT !.x = 0 - d.x, !.y = 0 - d.y]

\* A direction left as the shapes gave it.
MutTowardSecond(deltaPosition, d) == d

\* `if (prVector2Dot(deltaPosition, direction) < 0.0f) direction = -direction`
TowardSecond(deltaPosition, d) ==
    IF Dot(deltaPosition, <<d.x, d.y>>) < 0 THEN Opposite(d) ELSE d

\* The loops `if (max < value) max = value, maxIndex = i`: the first index of
\* the greatest value, 0 for no value.
ArgMax(values) ==
    IF Len(values) = 0 THEN 0
    ELSE CHOOSE i \in 1..Len(values) :
            /\ \A j \in 1..Len(values) : values[j] <= values[i]
            /\ \A j \in 1..(i - 1) : values[j] < values[i]

QuarterTurns == 0..3

\* prVector2Rotate by `angle` quarter turns: (x cos - y sin, x sin + y cos).
Rotate(v, angle) ==
    LET sin == <<0, 1, 0, -1>>[(angle % 4) + 1]
        cos == <<1, 0, -1, 0>>[(angle % 4) + 1]
    IN  <<v[1] * cos - v[2] * sin, v[1] * sin + v[2] * cos>>
RotateBack(v, angle) == Rotate(v, 4 - (angle % 4))
RotateTx(v, tx) == Rotate(v, tx.angle)
Transform(v, tx) == Plus(tx.position, Rotate(v, tx.angle))

Circle(radius) == [type |-> "CIRCLE", radius |-> radius]

\* prCreateRectangle: the hull of the four corners and the left normals of
\* its edges, each from the vertex before.
Rectangle(width, height) ==
    LET hw == width \div 2
        hh == height \div 2
        v == prJarvisMarch(<<<<0 - hw, 0 - hh>>, <<0 - hw, hh>>,
                             <<hw, hh>>, <<hw, 0 - hh>>>>).data
    IN  [type |-> "POLYGON", vertices |-> v,
         normals |-> [i \in 1..Len(v) |->
                        LeftNormal(Minus(v[i], v[IF i = 1 THEN Len(v) ELSE i - 1]))]]

NoDirection == [x |-> 0, y |-> 0, over |-> 1]
NoCollision == [result |-> FALSE, direction |-> NoDirection, count |-> 0,
                contacts |-> <<>>]
Separate == NoCollision

\* The manifold of a circle: one contact of id 0, stored twice.  Its point
\* and depth need the square root and are not kept.
Colliding(d) ==
    [result |-> TRUE, direction |-> d, count |-> 1,
     contacts |-> <<[id |-> 0], [id |-> 0]>>]

\* The end of a call: the value returned and what it stored in `collision`,
\* for the call on (s1, tx1, s2, tx2) and then for the call on
\* (s2, tx2, s1, tx1).
Returns(c) ==
    IF ~np.done
    THEN np' = [np EXCEPT !.done = TRUE, !.result = c.result,
                          !.direction = c.direction, !.count = c.count,
                          !.contacts = c.contacts]
    ELSE np' = [np EXCEPT !.swapped = [done |-> TRUE] @@ c]

CollisionCircles(s1, tx1, s2, tx2) ==
    \E direction \in {Minus(tx2.position, tx1.position)} :
    \E magnitudeSqr \in {MagnitudeSqr(direction)} :
        LET radiusSum == s1.radius + s2.radius
        IN  IF radiusSum * radiusSum < magnitudeSqr THEN Returns(Separate)
            ELSE Returns(Colliding(IF magnitudeSqr > 0
                                   THEN [x |-> direction[1], y |-> direction[2],
                                         over |-> magnitudeSqr]
                                   ELSE Unit(<<1, 0>>)))

CollisionCirclePoly(s1, tx1, s2, tx2) ==
    \E circleFirst \in {s1.type = "CIRCLE"} :
    \E circle \in {IF circleFirst THEN s1 ELSE s2},
       poly \in {IF circleFirst THEN s2 ELSE s1},
       circleTx \in {IF circleFirst THEN tx1 ELSE tx2},
       polyTx \in {IF circleFirst THEN tx2 ELSE tx1},
       deltaPosition \in {Minus(tx2.position, tx1.position)} :
    \E txCenter \in {RotateBack(Minus(circleTx.position, polyTx.position),
                                polyTx.angle)} :
    \E dots \in {[i \in 1..Len(poly.vertices) |->
                    Dot(poly.normals[i], Minus(txCenter, poly.vertices[i]))]} :
    \E maxIndex \in {ArgMax(dots)} :
        LET radius == circle.radius
            n == Len(poly.vertices)
            alongNormal ==
                Colliding(TowardSecond(
                    deltaPosition,
                    Unit(Negate(RotateTx(poly.normals[maxIndex], polyTx)))))
        IN  IF \E i \in 1..n : dots[i] > radius THEN Returns(Separate)
            ELSE IF maxIndex = 0 THEN Returns(Separate)
            ELSE IF dots[maxIndex] < 0 THEN Returns(alongNormal)
            ELSE \E v1 \in {poly.vertices[IF maxIndex > 1 THEN maxIndex - 1 ELSE n]},
                    v2 \in {poly.vertices[maxIndex]} :
                 \E edgeVector \in {Minus(v2, v1)},
                    v1ToCenter \in {Minus(txCenter, v1)},
                    v2ToCenter \in {Minus(txCenter, v2)} :
                 \E v1Dot \in {Dot(v1ToCenter, edgeVector)},
                    v2Dot \in {Dot(v2ToCenter, Negate(edgeVector))} :
                 \E direction \in {IF v1Dot <= 0 THEN v1ToCenter ELSE v2ToCenter} :
                 \E magnitudeSqr \in {MagnitudeSqr(direction)},
                    turned \in {RotateTx(Negate(direction), polyTx)} :
                     IF v1Dot <= 0 \/ v2Dot <= 0
                     THEN IF magnitudeSqr > radius * radius THEN Returns(Separate)
                          ELSE Returns(Colliding(TowardSecond(
                                   deltaPosition,
                                   IF magnitudeSqr > 0
                                   THEN [x |-> turned[1], y |-> turned[2],
                                         over |-> magnitudeSqr]
                                   ELSE NoDirection)))
                     ELSE Returns(alongNormal)

\* prGetSupportPointIndex: the first vertex farthest along v.
SupportPointIndex(vertices, tx, v) ==
    ArgMax([i \in 1..Len(vertices) |-> Dot(vertices[i], RotateBack(v, tx.angle))])

\* prGetSeparatingAxisIndex: the index and the depth of the least
\* penetration of s2 behind the edges of s1.
SeparatingAxis(s1, tx1, s2, tx2) ==
    LET depths == [i \in 1..Len(s1.normals) |->
                     LET vertex == Transform(s1.vertices[i], tx1)
                         normal == RotateTx(s1.normals[i], tx1)
                         supportIndex ==
                             SupportPointIndex(s2.vertices, tx2, Negate(normal))
                         supportPoint == Transform(s2.vertices[supportIndex], tx2)
                     IN  Dot(normal, Minus(supportPoint, vertex))]
    IN  [index |-> ArgMax(depths), depth |-> depths[ArgMax(depths)]]

\* prGetContactEdge: the edge at the support point most perpendicular to v.
ContactEdge(s, tx, v) ==
    LET n == Len(s.vertices)
        supportIndex == SupportPointIndex(s.vertices, tx, v)
        prevIndex == IF supportIndex = 1 THEN n ELSE supportIndex - 1
        nextIndex == IF supportIndex = n THEN 1 ELSE supportIndex + 1
        prevEdgeVector == Normalize(Minus(s.vertices[supportIndex], s.vertices[prevIndex]))
        nextEdgeVector == Normalize(Minus(s.vertices[supportIndex], s.vertices[nextIndex]))
        local == RotateBack(v, tx.angle)
    IN  IF Dot(prevEdgeVector, local) < Dot(nextEdgeVector, local)
        THEN [data |-> <<Transform(s.vertices[prevIndex], tx),
                         Transform(s.vertices[supportIndex], tx)>>,
              indexes |-> <<prevIndex - 1, supportIndex - 1>>]
        ELSE [data |-> <<Transform(s.vertices[supportIndex], tx),
                         Transform(s.vertices[nextIndex], tx)>>,
              indexes |-> <<supportIndex - 1, nextIndex - 1>>]

\* An edge kept whole.
MutClipEdge(e, v, dot) == [ok |-> TRUE, data |-> e]

\* prClipEdge.  An edge is cut only when it runs along v, and then
\* dot1 - dot2 divides the products.
ClipEdge(e, v, dot) ==
    LET dot1 == Dot(e[1], v) - dot
        dot2 == Dot(e[2], v) - dot
        edgeVector == Minus(e[2], e[1])
        cut(c) == IF dot1 - dot2 > 0 THEN (c * dot1) \div (dot1 - dot2)
                  ELSE (0 - c * dot1) \div (dot2 - dot1)
        midpoint == Plus(e[1], <<cut(edgeVector[1]), cut(edgeVector[2])>>)
    IN  IF dot1 >= 0 /\ dot2 >= 0 THEN [ok |-> TRUE, data |-> e]
        ELSE IF dot1 > 0 /\ dot2 < 0 THEN [ok |-> TRUE, data |-> <<e[1], midpoint>>]
        ELSE IF dot1 < 0 /\ dot2 > 0 THEN [ok |-> TRUE, data |-> <<e[2], midpoint>>]
        ELSE [ok |-> FALSE, data |-> e]

\* The contacts of two polygons: the ends of the clipped incident edge,
\* their depths behind the reference edge and their ids.
PolysManifold(direction, refEdge, refEdgeVector, indexes, data, incEdgeFlipped) ==
    LET refEdgeNormal == RightNormal(refEdgeVector)
        maxDepth == Dot(refEdge.data[1], refEdgeNormal)
        depth1 == Dot(data[1], refEdgeNormal) - maxDepth
        depth2 == Dot(data[2], refEdgeNormal) - maxDepth
        id1 == IF ~incEdgeFlipped THEN PR_GEOMETRY_MAX_VERTEX_COUNT + indexes[1]
               ELSE indexes[1]
        id2 == IF ~incEdgeFlipped THEN PR_GEOMETRY_MAX_VERTEX_COUNT + indexes[2]
               ELSE indexes[2]
        one(point, depth) ==
            <<[id |-> id1, point |-> point, depth |-> depth],
              [id |-> id2, point |-> point, depth |-> depth]>>
    IN  [result |-> TRUE, direction |-> direction,
         count |-> IF depth1 < 0 \/ depth2 < 0 THEN 1 ELSE 2,
         contacts |-> IF depth1 < 0 THEN one(data[2], depth2)
                      ELSE IF depth2 < 0 THEN one(data[1], depth1)
                      ELSE <<[id |-> id1, point |-> data[1], depth |-> depth1],
                             [id |-> id2, point |-> data[2], depth |-> depth2]>>]

CollisionPolys(s1, tx1, s2, tx2) ==
    \E axis1 \in {SeparatingAxis(s1, tx1, s2, tx2)},
       axis2 \in {SeparatingAxis(s2, tx2, s1, tx1)} :
        IF axis1.depth >= 0 \/ axis2.depth >= 0 THEN Returns(Separate)
        ELSE
        \E direction \in {TowardSecond(
                              Minus(tx2.position, tx1.position),
                              IF axis1.depth > axis2.depth
                              THEN Unit(RotateTx(s1.normals[axis1.index], tx1))
                              ELSE Unit(RotateTx(s2.normals[axis2.index], tx2)))} :
        \E d \in {<<direction.x, direction.y>>} :
        \E edge1 \in {ContactEdge(s1, tx1, d)},
           edge2 \in {ContactEdge(s2, tx2, Negate(d))} :
        \E incEdgeFlipped \in {Abs(Dot(Minus(edge1.data[2], edge1.data[1]), d))
                                 > Abs(Dot(Minus(edge2.data[2], edge2.data[1]), d))} :
        \E refEdge \in {IF incEdgeFlipped THEN edge2 ELSE edge1},
           incEdge \in {IF incEdgeFlipped THEN edge1 ELSE edge2} :
        \E refEdgeVector \in {Normalize(Minus(refEdge.data[2], refEdge.data[1]))} :
        \E clip1 \in {ClipEdge(incEdge.data, refEdgeVector,
                               Dot(refEdge.data[1], refEdgeVector))} :
            IF ~clip1.ok THEN Returns(Separate)
            ELSE \E clip2 \in {ClipEdge(clip1.data, Negate(refEdgeVector),
                                        0 - Dot(refEdge.data[2], refEdgeVector))} :
                     IF ~clip2.ok THEN Returns(Separate)
                     ELSE Returns(PolysManifold(direction, refEdge, refEdgeVector,
                                                incEdge.indexes, clip2.data,
                                                incEdgeFlipped))

\* prComputeCollision on two shapes that are not NULL.
ComputeCollision(s1, tx1, s2, tx2) ==
    IF s1.type = "CIRCLE" /\ s2.type = "CIRCLE"
    THEN CollisionCircles(s1, tx1, s2, tx2)
    ELSE IF s1.type = "POLYGON" /\ s2.type = "POLYGON"
    THEN CollisionPolys(s1, tx1, s2, tx2)
    ELSE CollisionCirclePoly(s1, tx1, s2, tx2)

NarrowShapes ==
    {Circle(r) : r \in 1..2} \cup {Rectangle(w, h) : w, h \in {2, 4}}

InitNarrow ==
    /\ InitWorld /\ hq = NoQuery /\ tr = NoRefresh
    /\ mt = NoMaterials /\ rb = NoBody /\ pg = NoPolygon /\ rs = NoPair
    /\ rc = NoRay /\ shapesFreed = {}
    /\ \E s1, s2 \in NarrowShapes, a1, a2 \in QuarterTurns,
          p2 \in (-Reach..Reach) \X (-Reach..Reach) :
          np = [done |-> FALSE,
                s1 |-> s1, tx1 |-> [position |-> <<0, 0>>, angle |-> a1],
                s2 |-> s2, tx2 |-> [position |-> p2, angle |-> a2],
                result |-> FALSE, direction |-> NoDirection, count |-> 0,
                contacts |-> <<>>, swapped |-> [done |-> FALSE] @@ NoCollision]

NarrowPhase ==
    /\ ~np.done
    /\ \E s1 \in {np.s1}, tx1 \in {np.tx1}, s2 \in {np.s2}, tx2 \in {np.tx2} :
          ComputeCollision(s1, tx1, s2, tx2)
    /\ UNCHANGED <<worldVars, ctlVars, clock, histVars, hq, tr, mt, rb, pg, rs, rc,
                 shapesFreed>>

\* The same two shapes passed the other way round.
NarrowPhaseSwapped ==
    /\ np.done /\ ~np.swapped.done
    /\ \E s1 \in {np.s1}, tx1 \in {np.tx1}, s2 \in {np.s2}, tx2 \in {np.tx2} :
          ComputeCollision(s2, tx2, s1, tx1)
    /\ UNCHANGED <<worldVars, ctlVars, clock, histVars, hq, tr, mt, rb, pg, rs, rc,
                 shapesFreed>>

NextNarrow == NarrowPhase \/ NarrowPhaseSwapped

SpecNarrow == InitNarrow /\ [][NextNarrow]_vars

\* C20: the direction d of a manifold prComputeCollision returns true for
\* has dot(tx2.position - tx1.position, d) >= 0, for two circles, a circle
\* and a polygon in either order, and two polygons.
C20_DirectionTowardSecond ==
    np.done /\ np.result =>
        Dot(Minus(np.tx2.position, np.tx1.position),
            <<np.direction.x, np.direction.y>>) >= 0

\* A turned polygon and a circle whose centre lies beside a corner of it,
\* left of and below the polygon's centre: the direction from the circle to
\* the corner was turned around.
C20_Witness ==
    /\ np.done /\ np.result
    /\ np.s1.type = "POLYGON" /\ np.s2.type = "CIRCLE"
    /\ np.tx1.angle = 1
    /\ np.tx2.position[1] < 0 /\ np.tx2.position[2] < 0
    /\ np.direction.over > 1
    /\ np.direction.x < 0 /\ np.direction.y < 0

\* The ids of the first `count` contacts of a manifold.
IdsOf(m) == {m.contacts[i].id : i \in 1..m.count}

\* C21: for two overlapping polygons the contact ids of
\* prComputeCollision(s1, tx1, s2, tx2) are those of
\* prComputeCollision(s2, tx2, s1, tx1): a contact at the same point has the
\* same id whichever body is passed first.
C21_IdsIndependentOfOrder ==
    (/\ np.swapped.done /\ np.result /\ np.swapped.result
     /\ np.s1.type = "POLYGON" /\ np.s2.type = "POLYGON")
    => /\ IdsOf(np) = IdsOf(np.swapped)
       /\ \A i \in 1..np.count, j \in 1..np.swapped.count :
             np.contacts[i].point = np.swapped.contacts[j].point
             => np.contacts[i].id = np.swapped.contacts[j].id

\* The extent of an unrotated rectangle at tx: its corners 1 and 3 are the
\* least and the greatest.
Least(s, tx) == Plus(tx.position, s.vertices[1])
Greatest(s, tx) == Plus(tx.position, s.vertices[3])
XOverlap == Greatest(np.s1, np.tx1)[1] - Least(np.s2, np.tx2)[1]
YLow == Max(Least(np.s1, np.tx1)[2], Least(np.s2, np.tx2)[2])
YHigh == Min(Greatest(np.s1, np.tx1)[2], Greatest(np.s2, np.tx2)[2])

SideBySide ==
    /\ np.s1.type = "POLYGON" /\ np.s2.type = "POLYGON"
    /\ np.tx1.angle = 0 /\ np.tx2.angle = 0
    /\ np.tx2.position[1] > np.tx1.position[1]
    /\ XOverlap > 0 /\ YHigh - YLow > 0
    /\ XOverlap < YHigh - YLow

RayReach == 3
MaxDistance == 4
FLT_MAX == 1000000

RatLeq(a, b) == a[1] * b[2] <= b[1] * a[2]
RatLess(a, b) == a[1] * b[2] < b[1] * a[2]
RatVector(v) == Vector(v[1], v[2])
prVector2Subtract(v1, v2) == prVector2Add(v1, <<RatNeg(v2[1]), RatNeg(v2[2])>>)
prVector2Dot(v1, v2) == RatAdd(RatMul(v1[1], v2[1]), RatMul(v1[2], v2[2]))

\* sqrtf of a whole square.
WholeRoot(k) == CHOOSE r \in 0..k : r * r = k

\* prVector2Normalize of a whole vector whose magnitude is whole.
NormalizeWhole(v) ==
    LET magnitude == WholeRoot(MagnitudeSqr(v))
    IN  IF magnitude > 0 THEN <<Rat(v[1], magnitude), Rat(v[2], magnitude)>>
        ELSE RatVector(v)

\* prComputeIntersectionLines: whether the lines meet, and *lambda after the
\* call, which is `lambda` where the call does not write it.
IntersectionLines(origin1, direction1, origin2, direction2, lambda) ==
    LET rXs == prVector2Cross(direction1, direction2)
        qp == prVector2Subtract(origin2, origin1)
        qpXs == prVector2Cross(qp, direction2)
        qpXr == prVector2Cross(qp, direction1)
        zero == Whole(0)
        one == Whole(1)
    IN  IF rXs # zero
        THEN LET inverseRxS == RatInv(rXs)
                 t == RatMul(qpXs, inverseRxS)
                 u == RatMul(qpXr, inverseRxS)
             IN  IF /\ RatLeq(zero, t) /\ RatLeq(t, one)
                    /\ RatLeq(zero, u) /\ RatLeq(u, one)
                 THEN [intersects |-> TRUE, lambda |-> t]
                 ELSE [intersects |-> FALSE, lambda |-> lambda]
        ELSE IF qpXr # zero THEN [intersects |-> FALSE, lambda |-> lambda]
        ELSE LET rDr == prVector2Dot(direction1, direction1)
                 sDr == prVector2Dot(direction2, direction1)
                 inverseRdR == RatInv(rDr)
                 qpDr == prVector2Dot(qp, direction1)
                 a == RatMul(qpDr, inverseRdR)
                 b == RatAdd(a, RatMul(sDr, inverseRdR))
                 t0 == IF RatLess(sDr, zero) THEN b ELSE a
                 t1 == IF RatLess(sDr, zero) THEN a ELSE b
             IN  IF \/ RatLess(t0, zero) /\ t1 = zero
                    \/ t0 = one /\ RatLess(one, t1)
                 THEN [intersects |-> TRUE,
                       lambda |-> IF t0 = one THEN one ELSE zero]
                 ELSE [intersects |-> RatLeq(zero, t1) /\ RatLeq(t0, one),
                       lambda |-> lambda]

\* The edge loop of prComputeRaycast from edge i on; st holds lambda,
\* minLambda, intersectionCount and the fields of *raycastHit.  After the
\* last edge the call returns: rc.result is the value returned, rc.hit is
\* *raycastHit.
RECURSIVE EdgeLoop(_, _, _, _, _)
EdgeLoop(vertices, tx, ray, i, st) ==
    IF i > Len(vertices)
    THEN \E inside \in {st.intersectionCount % 2 = 1} :
            rc' = [rc EXCEPT !.done = TRUE,
                             !.result = ~inside /\ st.intersectionCount > 0,
                             !.hit = [st.hit EXCEPT !.body = 1, !.inside = inside]]
    ELSE \E j \in {IF i = 1 THEN Len(vertices) ELSE i - 1} :
         \E v1 \in {Transform(vertices[i], tx)}, v2 \in {Transform(vertices[j], tx)} :
         \E edgeVector \in {Minus(v1, v2)} :
         \E r \in {IntersectionLines(ray.origin, ray.direction,
                                     RatVector(v2), RatVector(edgeVector),
                                     st.lambda)} :
         \E within \in {r.intersects /\ RatLeq(r.lambda, ray.maxDistance)} :
         \E nearer \in {within /\ RatLess(r.lambda, st.minLambda)} :
         \E after \in
              {[lambda |-> r.lambda,
                minLambda |-> IF nearer THEN r.lambda ELSE st.minLambda,
                intersectionCount |->
                    st.intersectionCount + (IF within THEN 1 ELSE 0),
                hit |-> IF nearer
                        THEN [st.hit EXCEPT
                                !.point = prVector2Add(
                                    ray.origin,
                                    prVector2ScalarMultiply(ray.direction,
                                                            r.lambda)),
                                !.normal = LeftNormal(edgeVector)]
                        ELSE st.hit]} :
            EdgeLoop(vertices, tx, ray, i + 1, after)

\* prComputeRaycast for a polygon and a raycastHit that is not NULL.
prComputeRaycast(b, ray, raycastHit) ==
    \E unit \in {[ray EXCEPT !.direction = NormalizeWhole(ray.direction),
                             !.origin = RatVector(ray.origin),
                             !.maxDistance = Whole(ray.maxDistance)]} :
        EdgeLoop(b.shape.vertices, b.tx, unit, 1,
                 [lambda |-> Whole(FLT_MAX), minLambda |-> Whole(FLT_MAX),
                  intersectionCount |-> 0, hit |-> raycastHit])

RayShapes == {Rectangle(2, 2), Rectangle(4, 2)}
RayDirections == {<<1, 0>>, <<0, 2>>, <<-1, 0>>, <<0, -1>>, <<3, 4>>, <<-4, -3>>}
\* What the caller's prRaycastHit holds before the call.
StaleHits ==
    {[body |-> NULL, point |-> ZeroVector, normal |-> <<0, 0>>,
      distance |-> Whole(d), inside |-> FALSE] : d \in {0, 2}}

InitRay ==
    /\ InitWorld /\ hq = NoQuery /\ tr = NoRefresh
    /\ mt = NoMaterials /\ rb = NoBody /\ pg = NoPolygon /\ np = NoManifold
    /\ rs = NoPair /\ shapesFreed = {}
    /\ \E s \in RayShapes, a \in 0..1, d \in RayDirections, m \in 1..MaxDistance,
          o \in (-RayReach..RayReach) \X (-RayReach..RayReach), h \in StaleHits :
          rc = [done |-> FALSE,
                b |-> [shape |-> s, tx |-> [position |-> <<0, 0>>, angle |-> a]],
                ray |-> [origin |-> o, direction |-> d, maxDistance |-> m],
                hit |-> h, result |-> FALSE]

ComputeRaycast ==
    /\ ~rc.done
    /\ prComputeRaycast(rc.b, rc.ray, rc.hit)
    /\ UNCHANGED <<worldVars, ctlVars, clock, histVars, hq, tr, mt, rb, pg, np, rs,
                 shapesFreed>>

SpecRay == InitRay /\ [][ComputeRaycast]_vars

\* The box of the body's rectangle in the world, the ray's unit direction
\* and the point of the ray at distance l.
Corners == {Transform(rc.b.shape.vertices[i], rc.b.tx) : i \in 1..Len(rc.b.shape.vertices)}
BoxLow(k) == CHOOSE c \in {v[k] : v \in Corners} : \A v \in Corners : c <= v[k]
BoxHigh(k) == CHOOSE c \in {v[k] : v \in Corners} : \A v \in Corners : c >= v[k]
RayUnit == NormalizeWhole(rc.ray.direction)
RayPoint(l) ==
    prVector2Add(RatVector(rc.ray.origin), prVector2ScalarMultiply(RayUnit, l))

OriginOutside ==
    \E k \in 1..2 : rc.ray.origin[k] < BoxLow(k) \/ rc.ray.origin[k] > BoxHigh(k)

InBox(p) ==
    \A k \in 1..2 : RatLeq(Whole(BoxLow(k)), p[k]) /\ RatLeq(p[k], Whole(BoxHigh(k)))
StrictlyInBox(p) ==
    \A k \in 1..2 : RatLess(Whole(BoxLow(k)), p[k]) /\ RatLess(p[k], Whole(BoxHigh(k)))

\* The distances at which the ray meets the boundary of the box: where it
\* meets the line of a face, at a point of the box.
Crossings ==
    {l \in {RatMul(Whole(c - rc.ray.origin[k]), RatInv(RayUnit[k])) :
              k \in {i \in 1..2 : RayUnit[i] # Whole(0)},
              c \in {BoxLow(1), BoxHigh(1), BoxLow(2), BoxHigh(2)}} :
        RatLeq(Whole(0), l) /\ InBox(RayPoint(l))}
SmallestCrossing == CHOOSE l \in Crossings : \A m \in Crossings : RatLeq(l, m)

\* The ray starts outside, goes through the inside of the polygon and
\* reaches its boundary within maxDistance.
CrossesBoundary ==
    /\ OriginOutside
    /\ \E l, m \in Crossings :
          StrictlyInBox(RayPoint(RatMul(RatAdd(l, m), <<1, 2>>)))
    /\ RatLeq(SmallestCrossing, Whole(rc.ray.maxDistance))

\* C23: for a polygon and a ray from outside whose segment of length
\* maxDistance crosses the boundary, prComputeRaycast returns true with
\* hit.distance the smallest crossing distance and hit.point the point of
\* the ray at that distance, also for distances above 1.
C23_RaycastPolygon ==
    rc.done /\ CrossesBoundary
    => /\ rc.result
       /\ rc.hit.distance = SmallestCrossing
       /\ rc.hit.point = RayPoint(SmallestCrossing)

(***************************************************************************)
(* Teardown: the world and the shapes of its bodies, as the examples        *)
(* release them (examples/src/basic.c, DeinitExample).                      *)
(***************************************************************************)

\* prGetBodyShape: every body has a circle of its own, numbered like the
\* body.
prGetBodyShape(b) == b

\* prReleaseShape(prGetBodyShape(b)), called by the program itself.
ReleaseShape(b) ==
    /\ Called("releaseShape", 1, 0, b)
    /\ shapesFreed' = shapesFreed \cup {prGetBodyShape(b)}
    /\ UNCHANGED <<worldVars, ctlVars, clock, events, hits, narrow, ret,
                   clockReads, freed, steps, upd, hq, tr, mt, rb, pg, np, rs, rc>>

NextTeardown ==
    \/ \E b \in BodyIds : b \notin Range(bodies) /\ AddBodyToWorld(b)
    \/ \E b \in BodyIds : ReleaseShape(b)
    \/ ReleaseWorld

SpecTeardown == Init /\ [][NextTeardown]_vars

\* C24: after prReleaseWorld(w) every body that was in w has been released,
\* and the shape of every such body too.
C24_TeardownReleasesShapes ==
    pc = "released"
    => \A b \in Range(bodies) :
          b \in freed /\ prGetBodyShape(b) \in shapesFreed

(***************************************************************************)
(* The cells of the spatial hash, under SpecHash.                           *)
(***************************************************************************)

\* The cells cx in [floor(x / s), floor((x + w) / s)], cy likewise.
FloorCells(aabb) ==
    {<<x, y>> : x \in (aabb.x \div CellSize)..((aabb.x + aabb.width) \div CellSize),
                y \in (aabb.y \div CellSize)..((aabb.y + aabb.height) \div CellSize)}

\* The cells whose list grew in this step.
CellsWritten ==
    {c \in DOMAIN hash' : c \notin DOMAIN hash \/ Len(hash'[c]) > Len(hash[c])}

\* C25: prInsertToSpatialHash and prQuerySpatialHash visit exactly the cells
\* cx in [floor(x / s), floor((x + w) / s)], cy in [floor(y / s),
\* floor((y + h) / s)] of an AABB (x, y, w, h), also for negative coordinates.
C25_FloorCells ==
    [][/\ \A aabb \in AabbChoices, value \in HashValues :
             HashInsert(aabb, value) => CellsWritten = FloorCells(aabb)
       /\ \A aabb \in AabbChoices :
             HashQuery(aabb) => CellsOf(aabb) = FloorCells(aabb)]_vars

(***************************************************************************)
(* The resolver's skips, under SpecPair.                                    *)
(***************************************************************************)

\* The relative velocity of the pair along the manifold's direction.
PairNormalVelocity ==
    (rs.bs[2].velocity - rs.bs[1].velocity) * rs.cache[1].value.direction

\* C26: the resolver skips a pair of two zero inverse masses entirely, it
\* changes no field of either body and none of the manifold; and a pass over
\* a contact whose relative normal velocity is above 0 changes neither
\* body's velocity nor the contact's cached scalars.
C26_ResolverSkips ==
    [][rs.pc = "solve" =>
          /\ rs.bs[1].inverseMass = 0 /\ rs.bs[2].inverseMass = 0
             => rs'.bs = rs.bs /\ rs'.cache = rs.cache
          /\ rs.bs[1].inverseMass + rs.bs[2].inverseMass > 0
               /\ PairNormalVelocity > 0
             => rs'.bs = rs.bs /\ rs'.cache = rs.cache
      ]_vars

(***************************************************************************)
(* The cache and the body list, under Spec.                                 *)
(***************************************************************************)

\* prStepWorld is about to use the cache entries: for a callback that is
\* set, for the warm start or for the solver.
UsesCache ==
    \/ pc \in {"warmStart", "solve"}
    \/ pc = "preStep" /\ handler.preStep
    \/ pc = "postStep" /\ handler.postStep

\* C27: whenever prStepWorld invokes a collision callback, applies the warm
\* start or resolves a cached manifold, both bodies of the cache entry are
\* in the world's body list: a removed body gets no impulse and is in no
\* callback.
C27_CachedBodiesAreMembers ==
    UsesCache =>
        \A j \in 1..Len(cache) :
            cache[j].key[1] \in Range(bodies) /\ cache[j].key[2] \in Range(bodies)

(***************************************************************************)
(* prComputeRaycastForWorld (world.c) with the calls that change the body   *)
(* list and prStepWorld.  The bodies are the world's circles on the x axis  *)
(* and the rays run along that axis.                                        *)
(***************************************************************************)

\* Rays {origin, direction, maxDistance} on the x axis: one over the bodies at
\* 0 and 1, one toward the body at 9, one that reaches nothing.
WorldRays ==
    {[origin |-> -2, direction |-> 2,  maxDistance |-> 4],
     [origin |-> 12, direction |-> -1, maxDistance |-> 3],
     [origin |-> 4,  direction |-> 1,  maxDistance |-> 1]}

\* prComputeIntersectionCircleLine for a centre and an origin on the x axis
\* and a unit direction along it.
prComputeIntersectionCircleLine(center, radius, origin, direction) ==
    LET originToCenter == center - origin
        dot == originToCenter * direction
        heightSqr == originToCenter * originToCenter - dot * dot
        baseSqr == radius * radius - heightSqr
    IN  [lambda |-> dot - WholeRoot(baseSqr),
         result |-> dot >= 0 /\ baseSqr >= 0]

\* The circle branch of prComputeRaycast: the value returned.
prComputeRaycastCircle(bd, b, ray) ==
    LET direction == ray.direction \div Abs(ray.direction)
        lambda == prComputeIntersectionCircleLine(
                      bd.position, prGetCircleRadius(ShapeOf(b)),
                      ray.origin, direction).lambda
    IN  lambda >= 0 /\ lambda <= ray.maxDistance

\* The AABB prComputeRaycastForWorld queries the hash with.
RayAABB(ray) ==
    LET minVertex == ray.origin
        maxVertex == ray.origin
                     + (ray.direction \div Abs(ray.direction)) * ray.maxDistance
    IN  [x |-> Min(minVertex, maxVertex), y |-> 0,
         width |-> Abs(maxVertex - minVertex), height |-> 0]

\* prRaycastHashQueryCallback for every value of the query result, in order:
\* the bodies `func` is called with.
RECURSIVE RunRaycastCallbacks(_, _, _, _, _)
RunRaycastCallbacks(bl, bs, ray, result, k) ==
    IF k > Len(result) THEN <<>>
    ELSE LET b == bl[result[k] + 1]
         IN  (IF prComputeRaycastCircle(bs[b], b, ray) THEN <<b>> ELSE <<>>)
             \o RunRaycastCallbacks(bl, bs, ray, result, k + 1)

\* prComputeRaycastForWorld(w, ray, func) with w and func not NULL: the hash
\* cleared, every body inserted under its index, one query; the hash is left
\* filled.  rc.calls are the values the callback was invoked with, rc.count
\* the length of the body list, rc.reported the bodies passed to func.
ComputeRaycastForWorld(ray) ==
    /\ Called("raycast", 1, 0, NULL)
    /\ \E filled \in {InsertBodies(prClearSpatialHash(hash), bodies, body, 0)} :
         /\ hash' = filled
         /\ \E past \in Garbage, before \in Garbage :
            \E result \in {prQuerySpatialHash(filled, RayAABB(ray), past, before)} :
               rc' = [done |-> TRUE, ray |-> ray, calls |-> result,
                      count |-> Len(bodies),
                      reported |-> RunRaycastCallbacks(bodies, body, ray, result, 1)]
    /\ events' = <<>>
    /\ UNCHANGED <<bodies, body, cache, handler, accumulator, timestamp, ctlVars,
                   clock, hits, narrow, ret, clockReads, freed, steps, upd,
                   hq, tr, mt, rb, pg, np, rs, shapesFreed>>

NextWorldRay ==
    \/ \E b \in BodyIds : b \notin Range(bodies) /\ AddBodyToWorld(b)
    \/ \E b \in BodyIds : RemoveBodyFromWorld(b)
    \/ ClearWorld
    \/ StepWorld(1, 1)
    \/ \E ray \in WorldRays : ComputeRaycastForWorld(ray)
    \/ StepPhase

SpecWorldRay == Init /\ [][NextWorldRay]_vars

\* C28: every index the spatial hash passes to the pair callback of
\* prPreStepWorld or to the raycast callback is an index of the current body
\* list, 0 <= index < body count, and the hash holds no value when
\* prPreStepWorld starts to insert.
C28_HashIndicesValid ==
    [][/\ (pc = "query" /\ qi' = qi + 1) =>
              \A past \in Garbage, before \in Garbage :
                  Range(prQuerySpatialHash(hash,
                                           prGetBodyAABB(body[bodies[qi + 1]]),
                                           past, before))
                      \subseteq 0..(Len(bodies) - 1)
       /\ (pc = "idle" /\ steps' = steps + 1) => HashContent(hash) = {}
       /\ (rc' # rc) => Range(rc'.calls) \subseteq 0..(rc'.count - 1)]_vars

(***************************************************************************)
(* The march of prJarvisMarch, under SpecPolygon.                           *)
(***************************************************************************)

\* C29: for 3 to PR_GEOMETRY_MAX_VERTEX_COUNT points, duplicate and collinear
\* points included, prJarvisMarch leaves its loop, writes no vertex past the
\* PR_GEOMETRY_MAX_VERTEX_COUNT slots of its output, and the output holds at
\* most as many vertices as the input.
C29_MarchBounded ==
    pg.done /\ ~pg.input.null /\ pg.input.count >= 3
            /\ pg.input.count <= PR_GEOMETRY_MAX_VERTEX_COUNT =>
        /\ ~pg.shape.overrun
        /\ Len(pg.shape.vertices) <= pg.input.count

(***************************************************************************)
(* The indices of queryResult the deduplication uses, under SpecHash.       *)
(***************************************************************************)

\* The indices of queryResult that the deduplication of the collected values
\* q reads and writes (0-based, as in the code).  Round i of the loop reads i
\* and i + 1 and writes newLength when the two differ; the check after the
\* loop reads newLength - 1 and oldLength - 1 and writes newLength when they
\* differ.  newLength is a size_t: newLength - 1 for newLength = 0 is the
\* largest size_t, written -1 here.
DedupIndices(q, past, before) ==
    LET oldLength == Len(q)
        sorted == SortSeq(q, prQSortCompare)
        r      == DedupLoop(sorted, 0, 0, oldLength, past)
        arr    == r[1]
        n      == r[2]
        prev   == IF n >= 1 THEN arr[n] ELSE before
    IN  IF oldLength > 1
        THEN [reads  |-> UNION {{i, i + 1} : i \in 0..(oldLength - 1)}
                         \cup {n - 1, oldLength - 1},
              writes |-> 0..(n - 1)
                         \cup (IF prev # arr[oldLength] THEN {n} ELSE {})]
        ELSE [reads |-> {}, writes |-> {}]

\* C30: while it deduplicates, prQuerySpatialHash reads and writes
\* queryResult only at the indices 0 <= i < number of collected values,
\* whatever was collected.
C30_DedupInBounds ==
    hq.queried =>
        LET q == CollectCells(hash, hq.aabb, 0, <<>>)
        IN  \A past \in Garbage, before \in Garbage :
                DedupIndices(q, past, before).reads
                    \cup DedupIndices(q, past, before).writes
                \subseteq 0..(Len(q) - 1)

====
